---- MODULE Spec2Model ----
(***************************************************************************)
(* The Chrome DevTools Protocol client of                                  *)
(* backend/mcp_servers/terminal_browser/server.py (class ChromeDevTools):  *)
(* one socket, a receive loop (_listen) that files every inbound frame     *)
(* either in the reply table (self.responses) or in the event log          *)
(* (self.events), and send_command, which numbers a request, writes it and *)
(* polls the reply table.  Operations run as asyncio tasks: a task runs    *)
(* without interruption from one await to the next, so every action below  *)
(* is the code between two suspension points.                              *)
(***************************************************************************)
EXTENDS Integers, Sequences, FiniteSets, TLC

\* ------------------------------------------------------------------ bounds
\* Number of frames the receive loop reads off the socket in one behaviour.
MaxFrames == 2
\* Largest id the target puts in a reply frame.
MaxId == 2
\* Ceiling of the wait loop in the specification of concurrent operations.
MaxPolls == 2
\* Ceiling of the wait loop in the code: for _ in range(100).
POLLS == 100

\* The logical operations (asyncio tasks) issued against the client: two
\* callers, each running one operation.
Tasks == {"A", "B"}

\* ------------------------------------------------------------------ frames
\* One inbound message.  kind "malformed" is a message json.loads rejects;
\* a "reply" carries an id and either a result or an error payload; an
\* "event" carries a method and no id.
NoFrame == [kind |-> "none", id |-> 0, body |-> ""]
ReplyFrames == [kind : {"reply"}, id : 1..MaxId, body : {"result", "error"}]
EventFrames ==
    [kind : {"event"}, id : {0},
     body : {"Page.loadEventFired", "Runtime.consoleAPICalled"}]
MalformedFrames == {[kind |-> "malformed", id |-> 0, body |-> ""]}
Frames == ReplyFrames \cup EventFrames \cup MalformedFrames

\* json.loads(message): raises on a message that is not JSON.
Parses(f) == f.kind # "malformed"
\* 'id' in data
HasIdNever(f) == FALSE
HasId(f) == f.kind = "reply"

\* --------------------------------------------------------------- operations
\* The commands each operation sends, in order.
CommandsRepeated(op) ==
    IF op = "navigate"
       THEN <<"Page.navigate", "Page.loadEventFired", "Page.loadEventFired">>
    ELSE <<"Runtime.evaluate">>
Commands(op) ==
    IF op = "navigate" THEN <<"Page.navigate", "Page.loadEventFired">>
    ELSE <<"Runtime.evaluate">>
Ops == {"send_command", "navigate"}

VARIABLES
    ws,          \* the socket: "None" before connect, then "open" or "closed"
    listening,   \* the _listen task is running its async-for loop
    message_id,  \* self.message_id
    responses,   \* self.responses: a function from ids to frames
    events,      \* self.events: a sequence of frames
    task,        \* per task: the operation, its position and its locals
    wire,        \* history: the messages the receive loop took off the socket
    requests,    \* history: the requests numbered by send_command, in order
    cdp,         \* TerminalBrowserServer.cdp: "None" or the client object
    last_elements, \* TerminalBrowserServer.last_elements: the registry
    call,        \* per task: the tool handler it runs, its position and locals
    opens,       \* history: how many times a socket has been opened
    calls,       \* history: how many tool handlers have been invoked
    shell,       \* history: the commands handed to subprocess.run, in order
    sessions,    \* SessionManager.sessions: per task id, no or one session
    trail,       \* history: the calls made to the SessionManager, in order
    agent_file,  \* the content of agent.py in the working tree
    git,         \* the commits of the repository's branch, HEAD last
    loop         \* EvolutionLoop.run: its position, how the last
                 \* _meta_improve ended and what _call_ollama returned to it

\* The state of TerminalBrowserServer, which the client's own actions leave
\* alone.
serverVars == <<cdp, last_elements, call, opens, calls>>

\* The state of the host outside the two servers' objects.
sessionVars == <<sessions, trail>>
evolveVars == <<agent_file, git, loop>>
hostVars == <<shell, sessions, trail, agent_file, git, loop>>

vars ==
    <<ws, listening, message_id, responses, events, task, wire, requests,
      cdp, last_elements, call, opens, calls, shell, sessions, trail,
      agent_file, git, loop>>

\* The task ids given to the SessionManager.
TaskIds == {"t1", "t2"}
\* SessionManager.__init__: no session under any task id.
SessionInit ==
    /\ sessions = [id \in TaskIds |-> <<>>]
    /\ trail = <<>>
\* The evolution loop has not been started.
NotRunning == [pc |-> "idle", i |-> 0, out |-> "none", response |-> <<>>]
\* The host when the servers start.
HostInit ==
    /\ shell = <<>>
    /\ SessionInit
    /\ agent_file = <<>> /\ git = <<>> /\ loop = NotRunning

\* A task's record.  op, pc, step say where the task is; msg_id and polls are
\* the locals of its running send_command.  The rest is history: ids, the ids
\* it put in the requests it wrote; ats, how many messages had been read when
\* each was written; got, the frames its send_commands returned; endAt, how
\* many messages had been read when the operation ended; tests, how many
\* times the wait loops of the operation have tested the reply table.
IdleTask ==
    [op |-> "none", pc |-> "idle", step |-> 0, msg_id |-> 0, polls |-> 0,
     ids |-> <<>>, ats |-> <<>>, got |-> <<>>, endAt |-> 0, tests |-> 0]

\* A tool handler that has not been invoked.  tool, pc say where the handler
\* is; selector, text, full_page, with_overlays are its arguments; sel, cmd,
\* arg, at, reply, node, point, typed, elements are locals of the handler and
\* of the client methods it is in; command and dry_run are the arguments of
\* execute_command; log is history: the commands it has
\* written; out is how it ended.
NoReply ==
    [err |-> FALSE, node |-> 0, box |-> <<>>, has |-> FALSE, value |-> <<>>,
     exception |-> ""]
IdleCall ==
    [tool |-> "none", pc |-> "idle", selector |-> <<>>, text |-> <<>>,
     full_page |-> FALSE, with_overlays |-> FALSE,
     sel |-> <<>>, cmd |-> "", arg |-> <<>>, at |-> <<>>, reply |-> NoReply,
     node |-> 0, point |-> <<>>, typed |-> 0, elements |-> <<>>,
     command |-> <<>>, dry_run |-> FALSE,
     markers |-> <<>>,
     log |-> <<>>, replies |-> 0, result |-> <<>>, out |-> "none"]

\* TerminalBrowserServer.__init__
ServerInit ==
    /\ cdp = "None"
    /\ last_elements = <<>>
    /\ call = [t \in Tasks |-> IdleCall]
    /\ opens = 0
    /\ calls = 0
    /\ HostInit

\* ChromeDevTools.__init__
Init ==
    /\ ws = "None"
    /\ listening = FALSE
    /\ message_id = 0
    /\ responses = <<>>
    /\ events = <<>>
    /\ task = [t \in Tasks |-> IdleTask]
    /\ wire = <<>>
    /\ requests = <<>>
    /\ ServerInit

\* ----------------------------------------------------------- the dict
\* self.responses[data['id']] = data
StoreReplySingleSlot(r, f) == (f.id :> f)
StoreReplyMisfiled(r, f) ==
    [k \in DOMAIN r \cup {1} |-> IF k = 1 THEN f ELSE r[k]]
StoreReply(r, f) ==
    [k \in DOMAIN r \cup {f.id} |-> IF k = f.id THEN f ELSE r[k]]
\* msg_id in self.responses
InResponses(r, id) == id \in DOMAIN r
\* self.responses.pop(msg_id): the table without the entry
PoppedAll(r, id) == <<>>
PoppedNothing(r, id) == r
Popped(r, id) == [k \in DOMAIN r \ {id} |-> r[k]]

\* self.events.append(data)
AppendEventFront(e, f) == <<f>> \o e
AppendEvent(e, f) == Append(e, f)

\* self.message_id += 1
NextIdNoIncrement(mid) == IF mid = 0 THEN 1 ELSE mid
NextId(mid) == mid + 1

\* The wait loop has run all its iterations: for _ in range(n) is exhausted.
ExhaustedNever(polls, n) == FALSE
Exhausted(polls, n) == polls = n

\* ----------------------------------------------------------- connect
\* ChromeDevTools.connect: raises when the target list is empty or the socket
\* cannot be opened; otherwise sets self.ws and starts the receive loop.
Connect(ok) ==
    /\ ws = "None"
    /\ IF ok THEN ws' = "open" /\ listening' = TRUE
             ELSE UNCHANGED <<ws, listening>>
    /\ UNCHANGED <<message_id, responses, events, task, wire, requests>>
    /\ UNCHANGED serverVars
    /\ UNCHANGED hostVars

\* The target (or the network) closes the socket: the async-for of _listen
\* ends and every later ws.send raises.
Close ==
    /\ ws = "open"
    /\ ws' = "closed"
    /\ listening' = FALSE
    /\ UNCHANGED <<message_id, responses, events, task, wire, requests>>
    /\ UNCHANGED serverVars
    /\ UNCHANGED hostVars

\* ----------------------------------------------------------- _listen
\* One iteration of the receive loop on the message f.
Listen(f) ==
    /\ ws = "open"
    /\ listening
    /\ Len(wire) < MaxFrames
    /\ wire' = Append(wire, f)
    /\ IF ~Parses(f)
          THEN /\ listening' = FALSE
               /\ UNCHANGED <<responses, events>>
          ELSE /\ listening' = listening
               /\ IF HasId(f)
                     THEN /\ responses' = StoreReply(responses, f)
                          /\ UNCHANGED events
                     ELSE /\ events' = AppendEvent(events, f)
                          /\ UNCHANGED responses
    /\ UNCHANGED <<ws, message_id, task, requests>>
    /\ UNCHANGED serverVars
    /\ UNCHANGED hostVars

\* ----------------------------------------------------------- send_command
\* Lines 79-88 of send_command for command number `step` of the operation
\* `op`, run by a task whose record is `rec`: the id is taken and the request
\* written before the task is suspended for the first time.  With no open
\* socket self.ws.send raises after the id has been taken.
Issued(rec, op, step) ==
    IF ws = "open"
       THEN [rec EXCEPT !.op = op, !.pc = "poll", !.step = step,
                        !.msg_id = NextId(message_id), !.polls = 0,
                        !.ids = Append(@, NextId(message_id)),
                        !.ats = Append(@, Len(wire))]
       ELSE [rec EXCEPT !.op = op, !.pc = "raised", !.step = step,
                        !.msg_id = NextId(message_id), !.endAt = Len(wire)]

Request(op, step) ==
    [id |-> NextId(message_id), method |-> Commands(op)[step],
     written |-> (ws = "open")]

\* A task starts an operation: its first send_command up to the first await.
Start(t, op) ==
    /\ task[t].pc = "idle"
    /\ message_id' = NextId(message_id)
    /\ requests' = Append(requests, Request(op, 1))
    /\ task' = [task EXCEPT ![t] = Issued(task[t], op, 1)]
    /\ UNCHANGED <<ws, listening, responses, events, wire>>
    /\ UNCHANGED serverVars
    /\ UNCHANGED hostVars

\* One iteration of the wait loop, with ceiling n: the reply is popped and
\* returned, or the task sleeps 100 ms.  A returned reply resumes the caller,
\* which runs on to its next send_command or to its own return.
Poll(t, n) ==
    /\ task[t].pc = "poll"
    /\ ~Exhausted(task[t].polls, n)
    /\ IF InResponses(responses, task[t].msg_id)
          THEN LET got == [task[t] EXCEPT
                                 !.got = Append(@, responses[task[t].msg_id]),
                                 !.tests = @ + 1]
                   more == task[t].step < Len(Commands(task[t].op))
               IN /\ responses' = Popped(responses, task[t].msg_id)
                  /\ IF more
                        THEN /\ message_id' = NextId(message_id)
                             /\ requests' =
                                  Append(requests,
                                         Request(task[t].op, task[t].step + 1))
                             /\ task' = [task EXCEPT ![t] =
                                  Issued(got, task[t].op, task[t].step + 1)]
                        ELSE /\ task' = [task EXCEPT ![t] =
                                  [got EXCEPT !.pc = "returned",
                                              !.endAt = Len(wire)]]
                             /\ UNCHANGED <<message_id, requests>>
          ELSE /\ task' = [task EXCEPT ![t].polls = @ + 1,
                                        ![t].tests = @ + 1]
               /\ UNCHANGED <<responses, message_id, requests>>
    /\ UNCHANGED <<ws, listening, events, wire>>
    /\ UNCHANGED serverVars
    /\ UNCHANGED hostVars

\* raise TimeoutError after the last sleep of the wait loop.
Timeout(t, n) ==
    /\ task[t].pc = "poll"
    /\ Exhausted(task[t].polls, n)
    /\ task' = [task EXCEPT ![t].pc = "timeout", ![t].endAt = Len(wire)]
    /\ UNCHANGED <<ws, listening, message_id, responses, events, wire, requests>>
    /\ UNCHANGED serverVars
    /\ UNCHANGED hostVars

\* ----------------------------------------------------------- specifications
ConnectStep == \E ok \in BOOLEAN : Connect(ok)
ListenStep == \E f \in Frames : Listen(f)
StartStep == \E t \in Tasks, op \in Ops : Start(t, op)
PollStep == \E t \in Tasks : Poll(t, MaxPolls)
TimeoutStep == \E t \in Tasks : Timeout(t, MaxPolls)

Next ==
    \/ ConnectStep
    \/ Close
    \/ ListenStep
    \/ StartStep
    \/ PollStep
    \/ TimeoutStep

Spec == Init /\ [][Next]_vars

\* One caller and the wait loop with the ceiling of the code.  An asyncio task
\* that sleeps is resumed when its timer expires, so a task in the wait loop
\* always gets its next iteration: weak fairness of Poll and Timeout.
StartCeiling == \E op \in Ops : Start("A", op)
PollCeiling == Poll("A", POLLS)
TimeoutCeiling == Timeout("A", POLLS)

NextCeiling ==
    \/ ConnectStep
    \/ Close
    \/ ListenStep
    \/ StartCeiling
    \/ PollCeiling
    \/ TimeoutCeiling

SpecCeiling ==
    /\ Init
    /\ [][NextCeiling]_vars
    /\ WF_vars(PollCeiling)
    /\ WF_vars(TimeoutCeiling)

\* ----------------------------------------------------------- vocabulary
Waiting(t) == task[t].pc = "poll"
Ended(t) == task[t].pc \in {"returned", "timeout", "raised"}
\* How many messages had been read when t wrote its current request.
SentAt(t) == task[t].ats[Len(task[t].ats)]
\* The places on the wire of the reply frames that carry the id i.
RepliesTo(i) == {p \in 1..Len(wire) : HasId(wire[p]) /\ wire[p].id = i}
\* The place of the one reply to t's current request, read while t waited.
ReplyAt(t) == CHOOSE p \in RepliesTo(task[t].msg_id) : TRUE
OneReplyWhileWaiting(t) ==
    /\ Len(task[t].ats) > 0
    /\ Cardinality(RepliesTo(task[t].msg_id)) = 1
    /\ ReplyAt(t) > SentAt(t)
IsEvent(f) == Parses(f) /\ ~HasId(f)
IsLoadEvent(f) == IsEvent(f) /\ f.body = "Page.loadEventFired"

\* ----------------------------------------------------------- claims

\* C1: every frame a send_command returned carries the id that invocation put
\* in its request, whatever the number of calls in flight and the order of
\* the replies.
C1_ReplyMatchesRequest ==
    \A t \in Tasks :
        /\ Len(task[t].got) <= Len(task[t].ids)
        /\ \A k \in 1..Len(task[t].got) : task[t].got[k].id = task[t].ids[k]

\* Both callers were in flight before any frame was read, the target answered
\* the later request first, and both calls have returned.
C1_Witness ==
    /\ task["A"].pc = "returned" /\ task["B"].pc = "returned"
    /\ task["A"].op = "send_command" /\ task["B"].op = "send_command"
    /\ task["A"].ats = <<0>> /\ task["B"].ats = <<0>>
    /\ Len(wire) = 2
    /\ wire[1].id = 2 /\ wire[2].id = 1

\* C2: once a call has timed out, a reply for its id that is read later is
\* dropped: the reply table does not keep it.
C2_LateReplyDropped ==
    \A t \in Tasks :
        (/\ task[t].pc = "timeout"
         /\ \E p \in RepliesTo(task[t].msg_id) : p > task[t].endAt)
        => ~InResponses(responses, task[t].msg_id)

\* C3: the receive loop stores a reply frame only when its id is the id of an
\* outstanding request; a frame whose id matches none is dropped.
C3_UnknownIdDropped ==
    [][\A i \in DOMAIN responses' :
          (~InResponses(responses, i) \/ responses'[i] # responses[i])
          => \E t \in Tasks : Waiting(t) /\ task[t].msg_id = i]_vars

\* C4: a malformed frame is dropped and the receive loop keeps running for as
\* long as the socket is open.
C4_LoopSurvivesMalformed ==
    (ws = "open" /\ \E p \in 1..Len(wire) : ~Parses(wire[p])) => listening

\* Every frame t's send_commands returned was read after its request had been
\* written: the target answered t's requests and did nothing out of protocol.
Answered(t) ==
    \A k \in 1..Len(task[t].got) :
        \E p \in RepliesTo(task[t].ids[k]) :
            p > task[t].ats[k] /\ wire[p] = task[t].got[k]

\* C5: when navigate has returned, a load event read after the navigation
\* began is in the event log.
C5_NavigateAwaitsLoad ==
    \A t \in Tasks :
        (task[t].op = "navigate" /\ task[t].pc = "returned" /\ Answered(t))
        => \E p \in 1..Len(wire) :
              /\ p > task[t].ats[1]
              /\ p <= task[t].endAt
              /\ IsLoadEvent(wire[p])
              /\ \E q \in 1..Len(events) : events[q] = wire[p]

\* C6: the k-th request numbered by send_command carries the id k, so ids grow
\* strictly and are never reused, and outstanding requests have distinct ids.
C6_IdsNeverReused ==
    /\ message_id = Len(requests)
    /\ \A k \in 1..Len(requests) : requests[k].id = k
    /\ \A t, u \in Tasks :
          (t # u /\ Waiting(t) /\ Waiting(u)) => task[t].msg_id # task[u].msg_id

\* One call has timed out and a call issued later is outstanding.
C6_Witness ==
    \E t, u \in Tasks :
        /\ task[t].pc = "timeout"
        /\ Waiting(u)
        /\ task[u].msg_id > task[t].msg_id

\* C7: the event log is the sequence of the id-less frames read so far, in the
\* order they were read; so an event read before a timeout is reported is in
\* the log at that moment.
C7_EventLogIsWireOrder == events = SelectSeq(wire, IsEvent)

\* Two different events were read in a row and a call that was waiting
\* meanwhile has timed out.
C7_Witness ==
    /\ Len(events) = 2
    /\ events[1] # events[2]
    /\ \E t \in Tasks : task[t].pc = "timeout" /\ task[t].endAt >= 1

\* What C8 is about: A and B both wait, the reply for A is read before the
\* reply for B, B has returned and A has not.
Overtaken(a, b) ==
    /\ a # b
    /\ Waiting(a)
    /\ task[b].pc = "returned"
    /\ OneReplyWhileWaiting(a)
    /\ OneReplyWhileWaiting(b)
    /\ ReplyAt(a) < ReplyAt(b)
    /\ SentAt(b) < ReplyAt(a)

C9_ErrorReplyFails ==
    \A t \in Tasks :
        Answered(t) =>
            \A k \in 1..Len(task[t].got) : task[t].got[k].body # "error"

\* C10: the wait loop makes at most POLLS polls and reports a timeout only
\* after all of them; a poll that finds the reply returns it; and every
\* send_command that has written its request ends: it returns or fails,
\* whatever the target sends.
C10_SendCommandTerminates ==
    /\ [](\A t \in Tasks :
            /\ task[t].polls <= POLLS
            /\ task[t].pc = "timeout" => task[t].polls = POLLS)
    /\ [][(/\ Waiting("A")
           /\ task["A"].polls < POLLS
           /\ InResponses(responses, task["A"].msg_id)
           /\ task'["A"] # task["A"])
          => task'["A"].got =
                Append(task["A"].got, responses[task["A"].msg_id])]_vars
    /\ \A i \in 1..2 :
          (Waiting("A") /\ task["A"].msg_id = i)
              ~> ~(Waiting("A") /\ task["A"].msg_id = i)

\* A call has made all its polls and failed with a timeout.
C10_Witness == task["A"].pc = "timeout" /\ task["A"].polls = POLLS

\* C11: a timeout leaves the connection usable: every request of another call
\* carries an id other than the id of the call that timed out, and no other
\* call returns a frame that carries the timed-out call's id, however late the
\* reply to it is read.
C11_TimeoutLeavesConnectionUsable ==
    \A t, u \in Tasks :
        (t # u /\ task[t].pc = "timeout") =>
            /\ \A k \in 1..Len(task[u].ids) : task[u].ids[k] # task[t].msg_id
            /\ \A k \in 1..Len(task[u].got) :
                  /\ task[u].got[k].id # task[t].msg_id
                  /\ task[u].got[k].id = task[u].ids[k]

\* A timed out, the reply to A was read late, B was issued after that and has
\* returned the reply to its own request.
C11_Witness ==
    /\ task["A"].pc = "timeout"
    /\ task["A"].endAt = 0
    /\ Len(wire) = 2
    /\ HasId(wire[1]) /\ wire[1].id = task["A"].msg_id
    /\ task["B"].pc = "returned"
    /\ task["B"].ats = <<1>>
    /\ task["B"].got = <<wire[2]>>

\* ======================================================================
\* TerminalBrowserServer: the browser tools built on the client.  A tool
\* handler is an asyncio task; it runs alone from one await to the next, so a
\* handler that is running (between two awaits) is the only one that moves.
\* The wait loop of send_command is a single await here: the reply to the
\* request is read and returned at a poll (Reply), or no reply is there at any
\* poll and TimeoutError is raised (TimeoutReply).
\* ======================================================================

\* Largest coordinate of a corner of a content quad.
MaxCoord == 2
\* Total number of tool handlers invoked in one behaviour.
MaxCalls == 3
\* Number of events the receive loop reads in one behaviour.
MaxEvents == 2

\* ------------------------------------------------------------- selectors
\* A selector is the sequence of its characters.
ElementPrefix == <<"e", "l", "e", "m", "e", "n", "t", ":">>
Ref(field) == ElementPrefix \o field
DigitChars == <<"0", "1", "2", "3", "4", "5", "6", "7", "8", "9">>
Digits == {DigitChars[i] : i \in 1..10}
DigitValue(c) == (CHOOSE i \in 1..10 : DigitChars[i] = c) - 1

\* selector.split(":")[1]: the characters between the first colon and the
\* next one (or the end).
Colons(s) == {i \in 1..Len(s) : s[i] = ":"}
Least(S) == CHOOSE x \in S : \A y \in S : x <= y
SecondField(s) ==
    LET first == Least(Colons(s))
        later == {i \in Colons(s) : i > first}
        stop == IF later = {} THEN Len(s) + 1 ELSE Least(later)
    IN SubSeq(s, first + 1, stop - 1)

\* int(field): an optional sign and at least one decimal digit; anything else
\* raises ValueError.
Unsigned(f) == IF Len(f) > 0 /\ f[1] \in {"+", "-"} THEN Tail(f) ELSE f
IntParses(f) ==
    /\ Len(Unsigned(f)) > 0
    /\ \A i \in 1..Len(Unsigned(f)) : Unsigned(f)[i] \in Digits
RECURSIVE Decimal(_)
Decimal(d) ==
    IF d = <<>> THEN 0
    ELSE 10 * Decimal(SubSeq(d, 1, Len(d) - 1)) + DigitValue(d[Len(d)])
IntValue(f) ==
    IF Len(f) > 0 /\ f[1] = "-" THEN 0 - Decimal(Unsigned(f))
    ELSE Decimal(Unsigned(f))

\* selector.startswith("element:")
StartsWithAndIsInteger(s, p) ==
    /\ Len(s) >= Len(p) /\ SubSeq(s, 1, Len(p)) = p
    /\ IntParses(SecondField(s))
StartsWith(s, p) == Len(s) >= Len(p) /\ SubSeq(s, 1, Len(p)) = p

\* 0 < element_num <= len(self.last_elements)
InRegistryExclusive(n, registry) == 0 < n /\ n < Len(registry)
InRegistry(n, registry) == 0 < n /\ n <= Len(registry)

\* The first lines of browser_click and browser_type: what the selector
\* argument resolves to against the registry.
Resolve(selector, registry) ==
    IF ~StartsWith(selector, ElementPrefix)
       THEN [kind |-> "selector", sel |-> selector]
    ELSE IF ~IntParses(SecondField(selector))
       THEN [kind |-> "invalid_format", sel |-> <<>>]
    ELSE IF InRegistry(IntValue(SecondField(selector)), registry)
       THEN [kind |-> "selector",
             sel |-> registry[IntValue(SecondField(selector))].selector]
    ELSE [kind |-> "not_in_registry", sel |-> <<>>]

\* ------------------------------------------------------------- the target
\* The element batches the enumeration script may return.
Element(sel) == [selector |-> sel]
Batches ==
    {<<>>, <<Element(<<"a">>)>>, <<Element(<<"b">>), Element(<<"i">>)>>}
\* The content quads DOM.getBoxModel may return: x1,y1,x2,y2,x3,y3,x4,y4.
Quads == {<<0, 0, 2, 0, 2, 2, 0, 2>>, <<4, 2, 6, 2, 6, 4, 4, 4>>}

\* The content sizes Page.getLayoutMetrics may return: width, height.
Sizes == {<<8, 6>>, <<4, 9>>}

\* A reply as the methods read it: err, the frame has no 'result'; node, box,
\* the nodeId and the content quad or size in the result; has and value, the
\* result has the key 'value' and what it holds; exception, the text of the
\* result's 'exceptionDetails' ("" when the key is absent).
Ok ==
    [err |-> FALSE, node |-> 0, box |-> <<>>, has |-> FALSE, value |-> <<>>,
     exception |-> ""]
Err == [Ok EXCEPT !.err = TRUE]
\* result['result'].get('value', default)
ValueOr(r, default) == IF r.has THEN r.value ELSE default
\* The replies the target may give to a command.
RepliesFor(cmd) ==
    {Err} \cup
    CASE cmd = "DOM.querySelector" -> {Ok, [Ok EXCEPT !.node = 1]}
      [] cmd = "DOM.getBoxModel" -> {[Ok EXCEPT !.box = q] : q \in Quads}
      [] cmd = "Page.getLayoutMetrics" -> {[Ok EXCEPT !.box = z] : z \in Sizes}
      [] cmd = "Runtime.evaluate" ->
           {[Ok EXCEPT !.has = TRUE, !.value = b] : b \in Batches}
           \cup {Ok, [Ok EXCEPT !.exception = "ReferenceError"]}
      [] OTHER -> {Ok}

\* click: x = (box[0] + box[2]) / 2, y = (box[1] + box[5]) / 2, kept as twice
\* the coordinates so that halves stay integers.
ClickPoint(box) == <<box[1] + box[3], box[2] + box[6]>>

\* self.last_elements = elements
ReplacedByExtending(old, new) == old \o new
Replaced(old, new) == new

\* The events the target may push once the socket is open.
ServerEvents ==
    [kind : {"event"}, id : {0},
     body : {"Runtime.consoleAPICalled", "Network.requestWillBeSent",
             "Page.loadEventFired"},
     params : {"p1", "p2"}]
\* e.get('method') == 'Runtime.consoleAPICalled'
IsConsole(e) == e.body = "Runtime.consoleAPICalled"
\* e.get('method', '').startswith('Network.')
IsNetwork(e) == e.body \in {"Network.requestWillBeSent"}
\* get_console_messages: the console events of the log, each projected.
ConsoleMessages(log) ==
    LET found == SelectSeq(log, IsConsole)
    IN [k \in 1..Len(found) |-> [type |-> found[k].params]]
\* get_network_activity: the network events of the log, as they are.
NetworkActivity(log) == SelectSeq(log, IsNetwork)
\* self.events after either getter has iterated over it.
ReadDraining(log) == <<>>
Read(log) == log

\* if not self.cdp
NeedsConnectAlways(c) == TRUE
NeedsConnect(c) == c = "None"

\* ------------------------------------------------------------- scheduling
RunningPcs == {"ensure", "body", "send", "resumed"}
Running(t) == call[t].pc \in RunningPcs
\* Every handler is suspended or not started: the event loop may resume one.
Quiet == \A t \in Tasks : ~Running(t)

Finished(rec, how) == [rec EXCEPT !.pc = "done", !.out = how]
Sending(rec, cmd, arg, at) ==
    [rec EXCEPT !.pc = "send", !.cmd = cmd, !.arg = arg, !.at = at]

\* ------------------------------------------------------------- handlers
\* The tool is invoked: the handler is about to run _ensure_cdp.
Call(t, tool, selector, text, full_page, with_overlays) ==
    /\ Quiet
    /\ call[t].pc \in {"idle", "done"}
    /\ calls < MaxCalls
    /\ calls' = calls + 1
    /\ call' = [call EXCEPT ![t] =
          [IdleCall EXCEPT !.tool = tool, !.pc = "ensure",
                           !.selector = selector, !.text = text,
                           !.full_page = full_page,
                           !.with_overlays = with_overlays]]
    /\ UNCHANGED <<ws, listening, message_id, responses, events, task, wire,
                   requests, cdp, last_elements, opens>>
    /\ UNCHANGED hostVars

\* _ensure_cdp up to its await: with no client object, one is made and stored
\* and connect is entered (suspended in the discovery request).
EnsureCdp(t) ==
    /\ call[t].pc = "ensure"
    /\ IF NeedsConnect(cdp)
          THEN /\ cdp' = "object"
               /\ ws' = "None"
               /\ listening' = FALSE
               /\ message_id' = 0
               /\ events' = <<>>
               /\ call' = [call EXCEPT ![t].pc = "discover"]
          ELSE /\ call' = [call EXCEPT ![t].pc = "body"]
               /\ UNCHANGED <<cdp, ws, listening, message_id, events>>
    /\ UNCHANGED <<responses, task, wire, requests, last_elements, opens, calls>>
    /\ UNCHANGED hostVars

\* connect after the discovery request: it raises when the request fails or
\* lists no target, and otherwise goes on to open the socket.
DiscoverAfterOpen(t, found) ==
    /\ Quiet
    /\ call[t].pc = "discover"
    /\ IF found = "refused"
          THEN /\ call' = [call EXCEPT ![t] = Finished(call[t], "connect_failed")]
               /\ UNCHANGED <<ws, listening, opens>>
          ELSE /\ ws' = "open" /\ listening' = TRUE /\ opens' = opens + 1
               /\ call' = [call EXCEPT ![t] =
                     IF found = "target" THEN [call[t] EXCEPT !.pc = "body"]
                     ELSE Finished(call[t], "no_target")]
    /\ UNCHANGED <<message_id, responses, events, task, wire, requests, cdp,
                   last_elements, calls>>
    /\ UNCHANGED hostVars
Discover(t, found) ==
    /\ Quiet
    /\ call[t].pc = "discover"
    /\ call' = [call EXCEPT ![t] =
          CASE found = "target" -> [call[t] EXCEPT !.pc = "opening"]
            [] found = "empty" -> Finished(call[t], "no_target")
            [] OTHER -> Finished(call[t], "connect_failed")]
    /\ UNCHANGED <<ws, listening, message_id, responses, events, task, wire,
                   requests, cdp, last_elements, opens, calls>>
    /\ UNCHANGED hostVars

\* connect after websockets.connect: self.ws is set and the receive loop
\* started, or the exception leaves through _ensure_cdp and the handler.
Open(t, ok) ==
    /\ Quiet
    /\ call[t].pc = "opening"
    /\ IF ok
          THEN /\ ws' = "open"
               /\ listening' = TRUE
               /\ opens' = opens + 1
               /\ call' = [call EXCEPT ![t].pc = "body"]
          ELSE /\ call' = [call EXCEPT ![t] = Finished(call[t], "connect_failed")]
               /\ UNCHANGED <<ws, listening, opens>>
    /\ UNCHANGED <<message_id, responses, events, task, wire, requests, cdp,
                   last_elements, calls>>
    /\ UNCHANGED hostVars

\* The handler after _ensure_cdp, up to its first send_command.
Body(t) ==
    /\ call[t].pc = "body"
    /\ LET c == call[t]
           r == Resolve(c.selector, last_elements)
       IN call' = [call EXCEPT ![t] =
            CASE c.tool = "navigate" -> Sending(c, "Page.navigate", <<>>, <<>>)
              [] c.tool = "screenshot" ->
                   Sending(c, IF c.full_page THEN "Page.getLayoutMetrics"
                                            ELSE "Page.captureScreenshot",
                           <<>>, <<>>)
              [] c.tool = "script" -> Sending(c, "Runtime.evaluate", <<>>, <<>>)
              [] c.tool = "console" ->
                   Finished([c EXCEPT !.result = ConsoleMessages(events)], "ok")
              [] c.tool = "network" ->
                   Finished([c EXCEPT !.result = NetworkActivity(events)], "ok")
              [] c.tool \in {"click", "type"} ->
                   IF r.kind = "selector"
                      THEN Sending([c EXCEPT !.sel = r.sel],
                                   "DOM.getDocument", <<>>, <<>>)
                      ELSE Finished(c, r.kind)]
    /\ events' = IF call[t].tool \in {"console", "network"}
                    THEN Read(events) ELSE events
    /\ UNCHANGED <<ws, listening, message_id, responses, task, wire,
                   requests, cdp, last_elements, opens, calls>>
    /\ UNCHANGED hostVars

\* send_command up to its wait loop: the id is taken, then the request is
\* written; self.ws.send raises when there is no open socket.
Send(t) ==
    /\ call[t].pc = "send"
    /\ message_id' = NextId(message_id)
    /\ call' = [call EXCEPT ![t] =
          IF ws = "open"
             THEN [call[t] EXCEPT
                     !.pc = "await",
                     !.log = Append(@, [method |-> call[t].cmd,
                                        arg |-> call[t].arg,
                                        at |-> call[t].at])]
             ELSE Finished(call[t], "send_failed")]
    /\ UNCHANGED <<ws, listening, responses, events, task, wire, requests,
                   cdp, last_elements, opens, calls>>
    /\ UNCHANGED hostVars

\* The wait loop finds the reply r to the handler's request.
Reply(t, r) ==
    /\ Quiet
    /\ call[t].pc = "await"
    /\ listening
    /\ r \in RepliesFor(call[t].cmd)
    /\ call' = [call EXCEPT ![t].pc = "resumed", ![t].reply = r,
                            ![t].replies = @ + 1]
    /\ UNCHANGED <<ws, listening, message_id, responses, events, task, wire,
                   requests, cdp, last_elements, opens, calls>>
    /\ UNCHANGED hostVars

\* The wait loop ends without a reply: raise TimeoutError.
TimeoutReply(t) ==
    /\ Quiet
    /\ call[t].pc = "await"
    /\ call' = [call EXCEPT ![t] = Finished(call[t], "timeout")]
    /\ UNCHANGED <<ws, listening, message_id, responses, events, task, wire,
                   requests, cdp, last_elements, opens, calls>>
    /\ UNCHANGED hostVars

\* ChromeDevTools.navigate after a reply.
AfterNavigate(c) ==
    IF c.cmd = "Page.navigate" THEN Sending(c, "Page.loadEventFired", <<>>, <<>>)
    ELSE Finished(c, "ok")

AfterQueryUnchecked(c) ==
    IF c.reply.err THEN Finished(c, "key_error")
    ELSE IF c.cmd = "DOM.getDocument"
       THEN Sending(c, "DOM.querySelector", c.sel, <<>>)
    ELSE IF c.tool = "click"
       THEN Sending([c EXCEPT !.node = c.reply.node], "DOM.getBoxModel", <<>>, <<>>)
    ELSE Sending([c EXCEPT !.node = c.reply.node], "DOM.focus", <<>>, <<>>)

\* query_selector (with get_dom) after a reply, and the test of its result in
\* click and type_text: result['result'] raises KeyError on an error reply.
AfterQuery(c) ==
    IF c.reply.err THEN Finished(c, "key_error")
    ELSE IF c.cmd = "DOM.getDocument"
       THEN Sending(c, "DOM.querySelector", c.sel, <<>>)
    ELSE IF c.reply.node = 0
       THEN Finished([c EXCEPT !.node = 0], "element_not_found")
    ELSE IF c.tool = "click"
       THEN Sending([c EXCEPT !.node = c.reply.node], "DOM.getBoxModel", <<>>, <<>>)
    ELSE Sending([c EXCEPT !.node = c.reply.node], "DOM.focus", <<>>, <<>>)

AfterClickPressOnly(c) ==
    IF c.cmd = "DOM.getBoxModel"
       THEN IF c.reply.err THEN Finished(c, "key_error")
            ELSE Sending([c EXCEPT !.point = ClickPoint(c.reply.box)],
                         "Input.dispatchMouseEvent", <<"mousePressed">>,
                         ClickPoint(c.reply.box))
    ELSE Finished(c, "ok")

\* ChromeDevTools.click after the reply to a command that follows the query.
AfterClick(c) ==
    IF c.cmd = "DOM.getBoxModel"
       THEN IF c.reply.err THEN Finished(c, "key_error")
            ELSE Sending([c EXCEPT !.point = ClickPoint(c.reply.box)],
                         "Input.dispatchMouseEvent", <<"mousePressed">>,
                         ClickPoint(c.reply.box))
    ELSE IF c.arg = <<"mousePressed">>
       THEN Sending(c, "Input.dispatchMouseEvent", <<"mouseReleased">>, c.point)
    ELSE Finished(c, "ok")

\* ChromeDevTools.type_text after the reply to DOM.focus or to a key event:
\* for char in text, one send_command each.
AfterType(c) ==
    LET typed == IF c.cmd = "DOM.focus" THEN 0 ELSE c.typed + 1
    IN IF typed < Len(c.text)
          THEN Sending([c EXCEPT !.typed = typed], "Input.dispatchKeyEvent",
                       <<c.text[typed + 1]>>, <<>>)
          ELSE Finished([c EXCEPT !.typed = typed], "ok")

\* _add_overlays: one marker per element, in registry order, labelled with
\* the index of enumerate(elements, 1) and drawn at that element's point.
MarkersZeroBased(elements) ==
    [k \in 1..Len(elements) |-> [label |-> k - 1, el |-> elements[k]]]
Markers(elements) ==
    [k \in 1..Len(elements) |-> [label |-> k, el |-> elements[k]]]

\* The "elements" list of browser_screenshot's result: number, idx of
\* enumerate(elements, 1), and the element's fields; empty without overlays.
Numbered(elements, with_overlays) ==
    IF with_overlays
       THEN [k \in 1..Len(elements) |->
               [number |-> k, selector |-> elements[k].selector]]
       ELSE <<>>

AfterScreenshotNoOverride(c) ==
    IF c.reply.err THEN Finished(c, "key_error")
    ELSE IF c.cmd = "Page.getLayoutMetrics"
       THEN Sending(c, "Page.captureScreenshot", <<>>, <<>>)
    ELSE IF c.cmd = "Page.captureScreenshot" /\ c.with_overlays
       THEN Sending(c, "Runtime.evaluate", <<>>, <<>>)
    ELSE [c EXCEPT !.pc = "captured",
                   !.elements = IF c.with_overlays THEN ValueOr(c.reply, <<>>)
                                ELSE <<>>,
                   !.markers = IF c.with_overlays
                                  THEN Markers(ValueOr(c.reply, <<>>))
                                  ELSE <<>>]

AfterScreenshotUnawaited(c) ==
    IF c.cmd = "Emulation.setDeviceMetricsOverride"
       THEN Sending(c, "Page.captureScreenshot", <<>>, <<>>)
    ELSE IF c.reply.err THEN Finished(c, "key_error")
    ELSE IF c.cmd = "Page.getLayoutMetrics"
       THEN Sending(c, "Emulation.setDeviceMetricsOverride", <<>>, c.reply.box)
    ELSE [c EXCEPT !.pc = "captured",
                   !.elements = IF c.with_overlays THEN ValueOr(c.reply, <<>>)
                                ELSE <<>>,
                   !.markers = IF c.with_overlays
                                  THEN Markers(ValueOr(c.reply, <<>>))
                                  ELSE <<>>]

\* ChromeDevTools.screenshot after a reply; "captured" is its return to
\* browser_screenshot.  The override carries the width and height of the
\* layout reply.
AfterScreenshot(c) ==
    IF c.cmd = "Emulation.setDeviceMetricsOverride"
       THEN Sending(c, "Page.captureScreenshot", <<>>, <<>>)
    ELSE IF c.reply.err THEN Finished(c, "key_error")
    ELSE IF c.cmd = "Page.getLayoutMetrics"
       THEN Sending(c, "Emulation.setDeviceMetricsOverride", <<>>, c.reply.box)
    ELSE IF c.cmd = "Page.captureScreenshot"
       THEN IF c.with_overlays
               THEN Sending(c, "Runtime.evaluate", <<>>, <<>>)
               ELSE [c EXCEPT !.pc = "captured", !.elements = <<>>]
    ELSE [c EXCEPT !.pc = "captured", !.elements = ValueOr(c.reply, <<>>),
                   !.markers = Markers(ValueOr(c.reply, <<>>))]

\* ChromeDevTools.execute_script after the reply.
AfterScriptIgnoringException(c) ==
    IF c.reply.err THEN Finished(c, "key_error")
    ELSE Finished([c EXCEPT !.result =
                      <<[has |-> c.reply.has, value |-> c.reply.value]>>], "ok")
AfterScript(c) ==
    IF c.reply.err THEN Finished(c, "key_error")
    ELSE IF c.reply.exception # ""
       THEN Finished([c EXCEPT !.result = <<c.reply.exception>>], "script_error")
    ELSE Finished([c EXCEPT !.result =
                      <<[has |-> c.reply.has, value |-> c.reply.value]>>], "ok")

After(c) ==
    CASE c.tool = "navigate" -> AfterNavigate(c)
      [] c.tool = "script" -> AfterScript(c)
      [] c.tool = "screenshot" -> AfterScreenshot(c)
      [] c.cmd \in {"DOM.getDocument", "DOM.querySelector"} -> AfterQuery(c)
      [] c.tool = "click" -> AfterClick(c)
      [] OTHER -> AfterType(c)

\* The handler goes on from the reply to its next await or to its end.  A
\* screenshot that has returned stores its elements as the registry, and
\* only then writes the file, builds the result and, when asked, has the
\* frame analysed: saved is whether those lines ran without raising.
Resume(t, saved) ==
    /\ call[t].pc = "resumed"
    /\ LET c == After(call[t])
       IN IF c.pc = "captured"
             THEN /\ last_elements' = Replaced(last_elements, c.elements)
                  /\ call' = [call EXCEPT ![t] =
                        IF saved
                           THEN Finished(
                                  [c EXCEPT !.result =
                                      Numbered(c.elements, c.with_overlays)],
                                  "ok")
                           ELSE Finished(c, "save_failed")]
             ELSE /\ call' = [call EXCEPT ![t] = c]
                  /\ UNCHANGED last_elements
    /\ UNCHANGED <<ws, listening, message_id, responses, events, task, wire,
                   requests, cdp, opens, calls>>
    /\ UNCHANGED hostVars

\* _listen reads an event frame pushed by the target and appends it.
Event(f) ==
    /\ Quiet
    /\ ws = "open" /\ listening
    /\ Len(events) < MaxEvents
    /\ events' = AppendEvent(events, f)
    /\ UNCHANGED <<ws, listening, message_id, responses, task, wire, requests,
                   cdp, last_elements, call, opens, calls>>
    /\ UNCHANGED hostVars

\* ------------------------------------------------------------- tools
\* The selector and text arguments of the click and type tools.
Selectors == {Ref(<<"1">>), Ref(<<"2">>), <<"a">>}
Texts == {<<"a", "b">>}

CallStep ==
    \E t \in Tasks :
        \/ Call(t, "navigate", <<>>, <<>>, FALSE, FALSE)
        \/ \E fp \in BOOLEAN, wo \in BOOLEAN :
              Call(t, "screenshot", <<>>, <<>>, fp, wo)
        \/ \E sel \in Selectors : Call(t, "click", sel, <<>>, FALSE, FALSE)
        \/ \E sel \in Selectors, text \in Texts :
              Call(t, "type", sel, text, FALSE, FALSE)
EnsureStep == \E t \in Tasks : EnsureCdp(t)
DiscoverStep ==
    \E t \in Tasks, found \in {"refused", "empty", "target"} : Discover(t, found)
OpenStep == \E t \in Tasks, ok \in BOOLEAN : Open(t, ok)
BodyStep == \E t \in Tasks : Body(t)
SendStep == \E t \in Tasks : Send(t)
ReplyStep == \E t \in Tasks : \E r \in RepliesFor(call[t].cmd) : Reply(t, r)
TimeoutReplyStep == \E t \in Tasks : TimeoutReply(t)
ResumeStep == \E t \in Tasks, saved \in BOOLEAN : Resume(t, saved)

NextServer ==
    \/ CallStep
    \/ EnsureStep
    \/ DiscoverStep
    \/ OpenStep
    \/ BodyStep
    \/ SendStep
    \/ ReplyStep
    \/ TimeoutReplyStep
    \/ ResumeStep

SpecServer == Init /\ [][NextServer]_vars

\* The console and network getters against a connection that receives events.
CallGetterStep ==
    \E t \in Tasks, tool \in {"console", "network"} :
        Call(t, tool, <<>>, <<>>, FALSE, FALSE)
EventStep == \E f \in ServerEvents : Event(f)

NextLog ==
    \/ CallGetterStep
    \/ EnsureStep
    \/ DiscoverStep
    \/ OpenStep
    \/ BodyStep
    \/ EventStep

SpecLog == Init /\ [][NextLog]_vars

\* browser_execute_script against a server that connects on first use.
CallScriptStep ==
    \E t \in Tasks : Call(t, "script", <<>>, <<>>, FALSE, FALSE)

NextScript ==
    \/ CallScriptStep
    \/ EnsureStep
    \/ DiscoverStep
    \/ OpenStep
    \/ BodyStep
    \/ SendStep
    \/ ReplyStep
    \/ TimeoutReplyStep
    \/ ResumeStep

SpecScript == Init /\ [][NextScript]_vars

\* The click point on its own: click has been resumed with the reply to
\* DOM.getBoxModel, whose content quad is any four corners with coordinates
\* in 0..MaxCoord, and runs on from there.
AllQuads == [1..8 -> 0..MaxCoord]

InitClickPoint ==
    /\ ws = "open" /\ listening = TRUE /\ message_id = 3
    /\ responses = <<>> /\ events = <<>>
    /\ task = [t \in Tasks |-> IdleTask]
    /\ wire = <<>> /\ requests = <<>>
    /\ cdp = "object" /\ opens = 1 /\ calls = 1 /\ HostInit
    /\ last_elements = <<>>
    /\ \E q \in AllQuads :
          call = [t \in Tasks |->
                    IF t = "A"
                       THEN [IdleCall EXCEPT
                               !.tool = "click", !.pc = "resumed",
                               !.selector = <<"a">>, !.sel = <<"a">>,
                               !.cmd = "DOM.getBoxModel", !.node = 1,
                               !.reply = [Ok EXCEPT !.box = q],
                               !.replies = 3,
                               !.log = <<[method |-> "DOM.getDocument",
                                          arg |-> <<>>, at |-> <<>>],
                                         [method |-> "DOM.querySelector",
                                          arg |-> <<"a">>, at |-> <<>>],
                                         [method |-> "DOM.getBoxModel",
                                          arg |-> <<>>, at |-> <<>>]>>]
                       ELSE IdleCall]

NextClickPoint ==
    \/ ResumeStep
    \/ SendStep
    \/ ReplyStep
    \/ TimeoutReplyStep

SpecClickPoint == InitClickPoint /\ [][NextClickPoint]_vars

\* Selector resolution on its own: browser_click or browser_type has been
\* invoked on a connected server with some selector and some registry, and
\* runs from its first line.
ResolveSelectors ==
    {Ref(<<"1">>), Ref(<<"2">>), Ref(<<"3">>), Ref(<<"0">>), Ref(<<"1", "2">>),
     Ref(<<"+", "1">>), Ref(<<"-", "1">>), Ref(<<>>), Ref(<<"h">>),
     Ref(<<"1", "h">>), Ref(<<"1", ":", "2">>), Ref(<<"h", ":", "1">>),
     <<"a">>, <<"a", ":", "h">>, <<"a", ":", "1">>,
     <<"e", "l", "e", "m", "e", "n", "t">>,
     <<"E", "l", "e", "m", "e", "n", "t", ":", "1">>}

InitResolve ==
    /\ ws = "open" /\ listening = TRUE /\ message_id = 0
    /\ responses = <<>> /\ events = <<>>
    /\ task = [t \in Tasks |-> IdleTask]
    /\ wire = <<>> /\ requests = <<>>
    /\ cdp = "object" /\ opens = 1 /\ calls = 1 /\ HostInit
    /\ last_elements \in Batches
    /\ \E tool \in {"click", "type"}, sel \in ResolveSelectors :
          call = [t \in Tasks |->
                    IF t = "A"
                       THEN [IdleCall EXCEPT !.tool = tool, !.pc = "body",
                                             !.selector = sel,
                                             !.text = <<"a", "b">>]
                       ELSE IdleCall]

NextResolve ==
    \/ BodyStep
    \/ SendStep
    \/ ReplyStep
    \/ TimeoutReplyStep
    \/ ResumeStep

SpecResolve == InitResolve /\ [][NextResolve]_vars

\* ======================================================================
\* execute_command of the two terminal servers: the safety check, the dry
\* run and the subprocess.  Neither handler awaits: each runs from its call
\* to its return in one step.  A command is the sequence of its characters.
\* ======================================================================
Whitespace == {" ", "\t"}
\* The pattern p stands in s at position i.
At(s, i, p) == i >= 1 /\ i + Len(p) - 1 <= Len(s) /\ SubSeq(s, i, i + Len(p) - 1) = p
\* Positions i..j-1 of s are whitespace, at least `least` of them: \s+ or \s*.
Gap(s, i, j, least) == j - i >= least /\ \A k \in i..(j - 1) : s[k] \in Whitespace
Positions(s) == 1..(Len(s) + 1)
\* pattern in command
Contains(s, p) == \E i \in Positions(s) : At(s, i, p)

\* re.search(pattern, command) for each entry of DANGEROUS_PATTERNS.
\* r"rm\s+-rf\s+/"
SearchRmRf(s) ==
    \E i \in Positions(s) :
        /\ At(s, i, <<"r", "m">>)
        /\ \E j \in Positions(s) :
              /\ At(s, j, <<"-", "r", "f">>) /\ Gap(s, i + 2, j, 1)
              /\ \E k \in Positions(s) :
                    At(s, k, <<"/">>) /\ Gap(s, j + 3, k, 1)
\* r"mkfs"
SearchMkfs(s) == Contains(s, <<"m", "k", "f", "s">>)
\* r"dd\s+if=/dev/zero"
SearchDd(s) ==
    \E i \in Positions(s) :
        /\ At(s, i, <<"d", "d">>)
        /\ \E j \in Positions(s) :
              /\ At(s, j, <<"i", "f", "=", "/", "d", "e", "v", "/", "z", "e", "r", "o">>)
              /\ Gap(s, i + 2, j, 1)
\* r":(){ :|:& };:" read as a regular expression: an empty group, a literal
\* brace, and an alternation of ":{ :" and ":& };:".
SearchForkBomb(s) ==
    \/ Contains(s, <<":", "{", " ", ":">>)
    \/ Contains(s, <<":", "&", " ", "}", ";", ":">>)
\* r">\s*/dev/sd"
SearchDevSd(s) ==
    \E i \in Positions(s) :
        /\ At(s, i, <<">">>)
        /\ \E j \in Positions(s) :
              /\ At(s, j, <<"/", "d", "e", "v", "/", "s", "d">>)
              /\ Gap(s, i + 1, j, 0)

\* TerminalBrowserServer._is_command_safe: no pattern is found.
IsCommandSafe(s) ==
    ~(\/ SearchRmRf(s) \/ SearchMkfs(s) \/ SearchDd(s)
      \/ SearchForkBomb(s) \/ SearchDevSd(s))

\* command.lower()
UpperChars == 
    <<"A", "B", "C", "D", "E", "F", "G", "H", "I", "J", "K", "L", "M", "N",
      "O", "P", "Q", "R", "S", "T", "U", "V", "W", "X", "Y", "Z">>
LowerChars == 
    <<"a", "b", "c", "d", "e", "f", "g", "h", "i", "j", "k", "l", "m", "n",
      "o", "p", "q", "r", "s", "t", "u", "v", "w", "x", "y", "z">>
LowerChar(c) ==
    IF \E i \in 1..26 : UpperChars[i] = c
       THEN LowerChars[CHOOSE i \in 1..26 : UpperChars[i] = c]
       ELSE c
Lower(s) == [i \in 1..Len(s) |-> LowerChar(s[i])]

\* TerminalAgentServer._is_safe_command: no entry of dangerous_patterns is a
\* substring of the lowered command.
TerminalPatterns ==
    {<<"r", "m", " ", "-", "r", "f", " ", "/">>,
     <<":", "(", ")", "{", " ", ":", "|", ":", "&", " ", "}", ";", ":">>,
     <<"m", "k", "f", "s">>,
     <<"d", "d", " ", "i", "f", "=", "/", "d", "e", "v", "/", "z", "e", "r", "o">>,
     <<">", " ", "/", "d", "e", "v", "/", "s", "d", "a">>,
     <<"c", "h", "m", "o", "d", " ", "-", "R", " ", "7", "7", "7", " ", "/">>,
     <<"w", "g", "e", "t", " ", "|", " ", "s", "h">>,
     <<"c", "u", "r", "l", " ", "|", " ", "s", "h">>}
IsSafeCommand(s) == ~\E p \in TerminalPatterns : Contains(Lower(s), p)

\* What execute_command returns: the unsafe test first, then the dry run,
\* then the subprocess, which ends in one of the ways `ended`.
OutcomeDryRunFirst(safe, dry_run, ended) ==
    IF dry_run THEN "dry_run" ELSE IF ~safe THEN "blocked" ELSE ended
Outcome(safe, dry_run, ended) ==
    IF ~safe THEN "blocked" ELSE IF dry_run THEN "dry_run" ELSE ended
\* subprocess.run was reached.
Ran(out) == out \notin {"blocked", "dry_run"}

\* The whole handler of either server, called with (command, dry_run), for
\* the verdict `safe` of its check.
Executed(t, safe, ended) ==
    /\ call[t].pc = "called"
    /\ call' = [call EXCEPT ![t] =
          [call[t] EXCEPT !.pc = "done",
                          !.out = Outcome(safe, call[t].dry_run, ended)]]
    /\ shell' = IF Ran(Outcome(safe, call[t].dry_run, ended))
                   THEN Append(shell, [server |-> call[t].tool,
                                       command |-> call[t].command])
                   ELSE shell
    /\ UNCHANGED <<ws, listening, message_id, responses, events, task, wire,
                   requests, cdp, last_elements, opens, calls>>
    /\ UNCHANGED <<sessionVars, evolveVars>>

\* TerminalBrowserServer.execute_command
ExecuteCommand(t, ended) ==
    /\ call[t].tool = "terminal_browser.execute_command"
    /\ Executed(t, IsCommandSafe(call[t].command), ended)
\* TerminalAgentServer.execute_command
TerminalExecuteCommand(t, ended) ==
    /\ call[t].tool = "terminal.execute_command"
    /\ Executed(t, IsSafeCommand(call[t].command), ended)

\* The commands given to the two handlers, and the ways a subprocess ends.
ShellCommands ==
    {<<"l", "s">>,
     <<"m", "k", "f", "s">>,
     <<"M", "K", "F", "S">>,
     <<"r", "m", " ", "-", "r", "f", " ", "/">>,
     <<"r", "m", " ", " ", "-", "r", "f", "\t", "/">>,
     <<"r", "m", " ", "-", "r", "f", " ", ".", "/", "x">>,
     <<"e", "c", "h", "o", " ", ">", "/", "d", "e", "v", "/", "s", "d", "a">>,
     <<"e", "c", "h", "o", " ", ">", " ", "/", "d", "e", "v", "/", "s", "d", "a">>,
     <<"d", "d", " ", "i", "f", "=", "/", "d", "e", "v", "/", "z", "e", "r", "o">>,
     <<":", "(", ")", "{", " ", ":", "|", ":", "&", " ", "}", ";", ":">>}
Endings == {"exit_0", "exit_1", "timed_out", "error"}

\* Each task has called execute_command of one of the servers with some
\* command and some dry_run.
InitExecute ==
    /\ ws = "None" /\ listening = FALSE /\ message_id = 0
    /\ responses = <<>> /\ events = <<>>
    /\ task = [t \in Tasks |-> IdleTask]
    /\ wire = <<>> /\ requests = <<>>
    /\ cdp = "None" /\ opens = 0 /\ calls = 2 /\ last_elements = <<>>
    /\ HostInit
    /\ call \in [Tasks ->
          {[IdleCall EXCEPT !.tool = server, !.pc = "called",
                            !.command = c, !.dry_run = d] :
             server \in {"terminal_browser.execute_command",
                         "terminal.execute_command"},
             c \in ShellCommands, d \in BOOLEAN}]

ExecuteStep == \E t \in Tasks, e \in Endings : ExecuteCommand(t, e)
TerminalExecuteStep ==
    \E t \in Tasks, e \in Endings : TerminalExecuteCommand(t, e)

NextExecute ==
    \/ ExecuteStep
    \/ TerminalExecuteStep

SpecExecute == InitExecute /\ [][NextExecute]_vars

\* ----------------------------------------------------------------------
\* Vocabulary of the tool-level properties.
ClickOrType(c) == c.tool \in {"click", "type"}
\* The handler has run its selector resolution.
Resolved(c) == c.pc \notin {"idle", "ensure", "discover", "opening", "body"}
Methods(c) == [k \in 1..Len(c.log) |-> c.log[k].method]
SentOf(c, method) == SelectSeq(c.log, LAMBDA e : e.method = method)
QueriesFor(c, sel) ==
    \A k \in 1..Len(c.log) :
        c.log[k].method = "DOM.querySelector" => c.log[k].arg = sel
NumberedRef(n) == Ref(<<DigitChars[n + 1]>>)

\* C12: click("element:N") and typeText("element:N", t) with N >= 1 fail
\* without sending anything when N exceeds the size of the registry (which is
\* empty until a screenshot has stored one), and otherwise go on with exactly
\* the selector of the N-th entry of the registry as it is at that moment.
C12_NumericReferenceResolved ==
    /\ [][\A t \in Tasks, n \in 1..9 :
            (/\ call[t].pc = "body" /\ call'[t].pc # "body"
             /\ ClickOrType(call[t])
             /\ call[t].selector = NumberedRef(n))
            => IF n > Len(last_elements)
                  THEN /\ call'[t].pc = "done"
                       /\ call'[t].out = "not_in_registry"
                       /\ call'[t].log = <<>>
                  ELSE /\ call'[t].pc = "send"
                       /\ call'[t].cmd = "DOM.getDocument"
                       /\ call'[t].sel = last_elements[n].selector]_vars
    /\ [](\A t \in Tasks :
            ClickOrType(call[t]) =>
               /\ call[t].out = "not_in_registry" => call[t].log = <<>>
               /\ QueriesFor(call[t], call[t].sel))

\* A click on element:2 against a registry of two entries has queried the
\* selector of the second entry.
C12_Witness ==
    \E t \in Tasks :
        /\ call[t].tool = "click" /\ call[t].selector = NumberedRef(2)
        /\ Len(last_elements) = 2
        /\ call[t].sel = last_elements[2].selector
        /\ SentOf(call[t], "DOM.querySelector") # <<>>

\* C13 (as stated): only element:<positive integer> is a numeric reference;
\* every other selector, also one that merely starts with "element:", goes
\* unchanged to the document lookup and the selector query.
HasElementPrefix(s) ==
    Len(s) >= Len(ElementPrefix) /\ SubSeq(s, 1, Len(ElementPrefix)) = ElementPrefix
IsReferenceLiteral(s) ==
    /\ HasElementPrefix(s)
    /\ Len(s) > Len(ElementPrefix)
    /\ \A i \in (Len(ElementPrefix) + 1)..Len(s) : s[i] \in Digits
    /\ \E i \in (Len(ElementPrefix) + 1)..Len(s) : s[i] # "0"
OnStructuralPath(c, sel) ==
    /\ c.sel = sel
    /\ c.out \notin {"invalid_format", "not_in_registry"}
    /\ c.pc = "done" => c.log # <<>>
    /\ QueriesFor(c, sel)
IsPrefix(a, b) == Len(a) <= Len(b) /\ SubSeq(b, 1, Len(a)) = a
KeyEvents(c) == SentOf(c, "Input.dispatchKeyEvent")
KeysSent(c) == [k \in 1..Len(KeyEvents(c)) |-> KeyEvents(c)[k].arg[1]]
\* Focus comes before any key event, the characters sent so far are a prefix
\* of the text, a command is sent only when every earlier one has its reply,
\* and a successful call has sent the whole text.
TypedAsPrefix(c) ==
    /\ IsPrefix(KeysSent(c), c.text)
    /\ \A k \in 1..Len(c.log) :
          c.log[k].method = "Input.dispatchKeyEvent" =>
             \E j \in 1..(k - 1) : c.log[j].method = "DOM.focus"
    /\ Len(c.log) - c.replies \in {0, 1}
    /\ (c.pc = "done" /\ c.out = "ok") => KeysSent(c) = c.text
\* A character beyond the first has been sent only after a reply to the one
\* before it that is not an error reply.
StopsAtFailedKey(c) ==
    (c.typed >= 1 /\ Len(KeysSent(c)) > c.typed /\ c.pc # "resumed")
        => ~c.reply.err

\* C14: typeText focuses the node, then sends one key event per character, in
\* order and one at a time: the key events sent so far are always a prefix of
\* the text, on success they are the text, and after a key-event call that
\* failed no later character is sent.
C14_TypesTextInOrder ==
    \A t \in Tasks :
        call[t].tool = "type" =>
            TypedAsPrefix(call[t]) /\ StopsAtFailedKey(call[t])

\* C15: a click sends at most a press and then a release, the release at the
\* point of the press and only once every earlier command, the press
\* included, has its reply; a successful click has sent both.
MouseEvents(c) == SentOf(c, "Input.dispatchMouseEvent")
C15_PressThenRelease ==
    \A t \in Tasks :
        call[t].tool = "click" =>
            LET c == call[t]
                m == MouseEvents(c)
            IN /\ Len(m) <= 2
               /\ Len(m) >= 1 => m[1].arg = <<"mousePressed">>
               /\ Len(m) = 2 =>
                    /\ m[2].arg = <<"mouseReleased">>
                    /\ m[2].at = m[1].at
                    /\ c.log[Len(c.log)] = m[2]
                    /\ c.replies >= Len(c.log) - 1
               /\ (c.pc = "done" /\ c.out = "ok") => Len(m) = 2

\* A click has succeeded: press and release were sent at the same point.
C15_Witness ==
    \E t \in Tasks :
        /\ call[t].tool = "click" /\ call[t].pc = "done" /\ call[t].out = "ok"
        /\ Len(MouseEvents(call[t])) = 2
        /\ MouseEvents(call[t])[2].at = <<10, 6>>

\* C16: when the selector query answers with no node, click and typeText end
\* with the element-not-found failure having sent the document lookup and the
\* selector query and nothing else; no command beyond these two is ever sent
\* for a node that was not found.
LookupMethods == {"DOM.getDocument", "DOM.querySelector"}
C16_NotFoundSendsNothingMore ==
    /\ [](\A t \in Tasks :
            ClickOrType(call[t]) =>
               /\ call[t].out = "element_not_found" =>
                     Methods(call[t]) = <<"DOM.getDocument", "DOM.querySelector">>
               /\ \A k \in 1..Len(call[t].log) :
                     call[t].log[k].method \notin LookupMethods
                        => call[t].node # 0)
    /\ [][\A t \in Tasks :
            (/\ ClickOrType(call[t]) /\ call[t].pc = "resumed"
             /\ call[t].cmd = "DOM.querySelector"
             /\ ~call[t].reply.err /\ call[t].reply.node = 0)
            => /\ call'[t].pc = "done"
               /\ call'[t].out = "element_not_found"
               /\ call'[t].log = call[t].log]_vars

\* typeText has ended with element-not-found after the two lookups.
C16_Witness ==
    \E t \in Tasks :
        /\ call[t].tool = "type" /\ call[t].out = "element_not_found"
        /\ Len(call[t].log) = 2 /\ call[t].reply.node = 0

\* ----------------------------------------------------------------------
\* C17: a connect attempt that fails leaves the server without a connection
\* object, and an operation that finds no open socket and no connect under
\* way makes a connect attempt of its own.
Connecting(c) == c.pc \in {"discover", "opening"}
C17_FailedConnectIsRetryable ==
    /\ [][\A t \in Tasks :
            (/\ call[t].out \notin {"connect_failed", "no_target"}
             /\ call'[t].out \in {"connect_failed", "no_target"})
                => cdp' = "None"]_vars
    /\ [][\A t \in Tasks :
            (/\ call[t].pc = "ensure" /\ call'[t].pc # "ensure"
             /\ ws # "open"
             /\ \A u \in Tasks : ~Connecting(call[u]))
            => call'[t].pc = "discover"]_vars

\* C18: the socket is opened by the first operation that needs it and at most
\* once, and whenever a command is written the socket is open and the receive
\* loop has been started, however the operations interleave.
C18_NoCommandBeforeOpen ==
    /\ [](opens <= 1 /\ (opens = 0 => ws = "None" /\ ~listening))
    /\ [][opens' # opens =>
            \E t \in Tasks : call[t].pc = "opening" /\ call'[t].pc = "body"]_vars
    /\ [][\A t \in Tasks :
            call'[t].log # call[t].log
                => ws = "open" /\ listening /\ opens = 1]_vars

\* Two operations were started together as the first use: one opened the
\* socket and has sent a command; the other found the socket not yet open and
\* wrote nothing.
C18_Witness ==
    \E t, u \in Tasks :
        /\ t # u /\ opens = 1
        /\ call[t].log # <<>>
        /\ call[u].out = "send_failed" /\ call[u].log = <<>>
        /\ calls = 2

\* C19: the registry is at every moment one whole batch of elements, it
\* changes only by a finished screenshot storing all of its elements at once,
\* and a click or typeText resolves its numeric reference against the
\* registry of one moment, also while a screenshot is in progress.
C19_RegistryReplacedWhole ==
    /\ [](last_elements \in Batches)
    /\ [][last_elements' # last_elements =>
            \E t \in Tasks :
                /\ call[t].tool = "screenshot" /\ call[t].pc = "resumed"
                /\ last_elements' = call'[t].elements
                /\ call'[t].elements \in Batches]_vars
    /\ [][\A t \in Tasks, n \in 1..9 :
            (/\ call[t].pc = "body" /\ call'[t].pc = "send"
             /\ ClickOrType(call[t])
             /\ call[t].selector = NumberedRef(n))
            => /\ last_elements' = last_elements
               /\ \E b \in Batches :
                     /\ b = last_elements /\ n <= Len(b)
                     /\ call'[t].sel = b[n].selector]_vars

\* A click has just resolved element:2 against the registry of two entries
\* while a screenshot of another handler waits for a reply.
C19_Witness ==
    \E t, u \in Tasks :
        /\ call[t].tool = "screenshot" /\ call[t].pc = "await"
        /\ call[u].tool = "click" /\ call[u].pc = "send"
        /\ call[u].selector = NumberedRef(2)
        /\ Len(last_elements) = 2
        /\ call[u].sel = last_elements[2].selector

\* C20: getConsoleMessages and getNetworkActivity leave the event log as it
\* is and return its matching events in log order; as the log only grows at
\* its end, what a getter returned stays a prefix of what it would return
\* now, and is the same until a new matching event arrives.
Getter(c) == c.tool \in {"console", "network"}
Matching(c, log) ==
    IF c.tool = "console"
       THEN LET found ==
                    SelectSeq(log, LAMBDA e : e.body = "Runtime.consoleAPICalled")
            IN [k \in 1..Len(found) |-> [type |-> found[k].params]]
       ELSE SelectSeq(log, LAMBDA e : e.body = "Network.requestWillBeSent")
C20_GettersReadOnly ==
    /\ [][\A t \in Tasks :
            (call[t].pc = "body" /\ call'[t].pc # "body" /\ Getter(call[t]))
            => /\ events' = events
               /\ call'[t].pc = "done" /\ call'[t].out = "ok"
               /\ call'[t].result = Matching(call[t], events)]_vars
    /\ [](\A t \in Tasks :
            (Getter(call[t]) /\ call[t].pc = "done" /\ call[t].out = "ok")
                => IsPrefix(call[t].result, Matching(call[t], events)))

\* Two console reads have returned the same single message from a log that
\* also holds another event.
C20_Witness ==
    /\ call["A"].tool = "console" /\ call["A"].pc = "done"
    /\ call["B"].tool = "console" /\ call["B"].pc = "done"
    /\ Len(events) = 2 /\ Len(call["A"].result) = 1
    /\ call["A"].result = call["B"].result

\* ----------------------------------------------------------------------
\* C21: commands are pipelined.  A step of one call leaves every other call's
\* record alone and leaves a reply filed for a waiting call in the table; a
\* task that has not started can always send, whoever is waiting; and a
\* waiting call whose reply is in the table returns that reply at its next
\* poll (when the wait loop has one left), whatever the other calls are doing.
OwnReplyFiled(t) ==
    /\ Waiting(t)
    /\ InResponses(responses, task[t].msg_id)
    /\ responses[task[t].msg_id].id = task[t].msg_id
C21_Pipelined ==
    /\ [][\A t, u \in Tasks :
            (t # u /\ task'[t] # task[t]) =>
               /\ task'[u] = task[u]
               /\ OwnReplyFiled(u) =>
                     /\ InResponses(responses', task[u].msg_id)
                     /\ responses'[task[u].msg_id] = responses[task[u].msg_id]]_vars
    /\ [][\A t \in Tasks :
            (/\ OwnReplyFiled(t) /\ ~Exhausted(task[t].polls, MaxPolls)
             /\ task'[t] # task[t]) =>
               /\ Len(task'[t].got) = Len(task[t].got) + 1
               /\ task'[t].got[Len(task'[t].got)] = responses[task[t].msg_id]]_vars
    /\ [](\A t \in Tasks :
            /\ task[t].pc = "idle" => ENABLED Start(t, "send_command")
            /\ Waiting(t) => ENABLED (Poll(t, MaxPolls) \/ Timeout(t, MaxPolls)))

\* A sent first and B second; B's reply was read first and B returned with it
\* while A was still waiting; A's reply came next and A returned with it.
C21_Witness ==
    /\ task["A"].ids = <<1>> /\ task["B"].ids = <<2>>
    /\ task["A"].ats = <<0>> /\ task["B"].ats = <<0>>
    /\ Len(wire) = 2
    /\ task["B"].pc = "returned" /\ task["B"].endAt = 1
    /\ task["B"].got = <<wire[1]>> /\ wire[1].id = 2
    /\ task["A"].pc = "returned" /\ task["A"].endAt = 2
    /\ task["A"].got = <<wire[2]>> /\ wire[2].id = 1

\* ----------------------------------------------------------------------
\* C22: a full-page capture sends the layout query, then the viewport
\* override with the width and height of the layout reply, then the capture
\* (and, with overlays, the element enumeration), each once every earlier
\* command has its reply, and nothing after that: no command restores the
\* viewport.  A capture that is not full-page sends neither the layout query
\* nor the override.
CaptureCommands(c) ==
    (IF c.full_page
        THEN <<"Page.getLayoutMetrics", "Emulation.setDeviceMetricsOverride">>
        ELSE <<>>)
    \o <<"Page.captureScreenshot">>
    \o (IF c.with_overlays THEN <<"Runtime.evaluate">> ELSE <<>>)
C22_FullPageCaptureOrder ==
    /\ [](\A t \in Tasks :
            call[t].tool = "screenshot" =>
               /\ IsPrefix(Methods(call[t]), CaptureCommands(call[t]))
               /\ Len(call[t].log) - call[t].replies \in {0, 1}
               /\ (call[t].pc = "done" /\ call[t].out = "ok")
                     => Methods(call[t]) = CaptureCommands(call[t]))
    /\ [][\A t \in Tasks :
            (/\ call[t].tool = "screenshot" /\ call[t].pc = "resumed"
             /\ call[t].cmd = "Page.getLayoutMetrics" /\ ~call[t].reply.err
             /\ call'[t] # call[t])
            => /\ call'[t].cmd = "Emulation.setDeviceMetricsOverride"
               /\ call'[t].at = call[t].reply.box]_vars

\* A full-page capture without overlays has succeeded with its three
\* commands, the override at the replied size.
C22_Witness ==
    \E t \in Tasks :
        /\ call[t].tool = "screenshot" /\ call[t].full_page
        /\ ~call[t].with_overlays
        /\ call[t].pc = "done" /\ call[t].out = "ok"
        /\ Len(call[t].log) = 3 /\ call[t].log[2].at = <<4, 9>>

\* ----------------------------------------------------------------------
\* C23: evaluateScript sends exactly one command.  On a reply whose result
\* carries no exception it succeeds with the value of the result; on one that
\* carries an exception it fails with the text of the exception; either way
\* it leaves the socket, the receive loop, the event log, the reply table and
\* the registry as they were.
C23_ScriptValueOrError ==
    /\ [](\A t \in Tasks :
            call[t].tool = "script" =>
               /\ IsPrefix(Methods(call[t]), <<"Runtime.evaluate">>)
               /\ call[t].pc = "done" /\ call[t].out = "ok" =>
                     /\ Methods(call[t]) = <<"Runtime.evaluate">>
                     /\ ~call[t].reply.err /\ call[t].reply.exception = ""
                     /\ call[t].result[1].has = call[t].reply.has
                     /\ call[t].result[1].value = call[t].reply.value
               /\ call[t].pc = "done" /\ call[t].out = "script_error" =>
                     /\ Methods(call[t]) = <<"Runtime.evaluate">>
                     /\ call[t].reply.exception # ""
                     /\ call[t].result = <<call[t].reply.exception>>)
    /\ [][\A t \in Tasks :
            (/\ call[t].tool = "script" /\ call[t].pc = "resumed"
             /\ ~call[t].reply.err /\ call'[t] # call[t])
            => /\ call'[t].pc = "done"
               /\ call'[t].out =
                     IF call[t].reply.exception = "" THEN "ok" ELSE "script_error"]_vars
    /\ [][\A t \in Tasks :
            (/\ call[t].tool = "script"
             /\ call[t].pc \in {"body", "send", "await", "resumed"}
             /\ call'[t] # call[t])
            => UNCHANGED <<ws, listening, events, responses, cdp, last_elements,
                           opens>>]_vars

\* One script has returned a value and another has failed with the text of
\* the remote exception.
C23_Witness ==
    /\ call["A"].tool = "script" /\ call["A"].out = "ok"
    /\ call["A"].result[1].has /\ call["A"].result[1].value # <<>>
    /\ call["B"].tool = "script" /\ call["B"].out = "script_error"
    /\ call["B"].result = <<"ReferenceError">>

\* ----------------------------------------------------------------------
\* C24: for every content quad x1,y1,...,x4,y4 the click point is the middle
\* of the least and the greatest x and of the least and the greatest y of the
\* four corners (both sides doubled here), whatever the order or orientation
\* of the corners.
Xs(q) == {q[1], q[3], q[5], q[7]}
Ys(q) == {q[2], q[4], q[6], q[8]}
Greatest(S) == CHOOSE x \in S : \A y \in S : x >= y
Centre(q) == <<Least(Xs(q)) + Greatest(Xs(q)), Least(Ys(q)) + Greatest(Ys(q))>>
\* The press of a click has been prepared or sent and its reply not yet
\* read: reply is still the box model the point was computed from.
PressFromBox(c) ==
    /\ c.tool = "click" /\ c.cmd = "Input.dispatchMouseEvent"
    /\ c.arg = <<"mousePressed">> /\ c.pc \in {"send", "await"}
C24_ClickPointIsCentre ==
    \A t \in Tasks :
        PressFromBox(call[t]) => call[t].at = Centre(call[t].reply.box)

\* ----------------------------------------------------------------------
\* C25: a reply is consumed once.  The step in which a call returns the reply
\* for its id leaves the reply table without an entry for that id; no frame
\* is returned a second time, to the same call or to another; and an entry
\* found under the id of a finished call is a frame that was read after that
\* call had returned.
ReturnedFrames(t) == {task[t].got[k] : k \in 1..Len(task[t].got)}
ReturnsOf(i) ==
    {<<t, k>> \in Tasks \X (1..MaxId) :
        k <= Len(task[t].got) /\ task[t].got[k].id = i}
C25_ReplyConsumedOnce ==
    /\ [][\A t \in Tasks :
            Len(task'[t].got) > Len(task[t].got) =>
               /\ InResponses(responses, task[t].msg_id)
               /\ ~InResponses(responses', task[t].msg_id)]_vars
    /\ [](\A i \in 1..MaxId : Cardinality(ReturnsOf(i)) <= 1)
    /\ [](\A t \in Tasks :
            (task[t].pc = "returned" /\ task[t].op = "send_command"
             /\ InResponses(responses, task[t].msg_id))
            => \E p \in (task[t].endAt + 1)..Len(wire) :
                  wire[p] = responses[task[t].msg_id])

\* A has returned the reply for its id and the table is empty; B, waiting
\* for another id, has polled since and found nothing.
C25_Witness ==
    /\ task["A"].pc = "returned" /\ task["A"].got = <<wire[1]>>
    /\ Len(wire) = 1 /\ responses = <<>>
    /\ task["B"].pc = "poll" /\ task["B"].polls >= 1
    /\ task["B"].ats = <<1>>

\* ----------------------------------------------------------------------
\* C26: when target discovery returns an empty list, the connect attempt
\* ends there with the no-target failure: that step opens no socket and
\* starts no receive loop, and the handler of that attempt never opens one
\* and never sends a command.
C26_NoTargetFailsBeforeOpen ==
    /\ [](\A t \in Tasks :
            call[t].out = "no_target" =>
               call[t].pc = "done" /\ call[t].log = <<>>)
    /\ [][\A t \in Tasks :
            (call[t].out # "no_target" /\ call'[t].out = "no_target")
            => /\ call[t].pc = "discover"
               /\ UNCHANGED <<ws, listening, opens, message_id>>
               /\ ws = "None" /\ ~listening]_vars

\* The first connect attempt found no target: no socket, no receive loop.
C26_Witness ==
    \E t \in Tasks :
        /\ call[t].out = "no_target" /\ call[t].log = <<>>
        /\ ws = "None" /\ ~listening /\ opens = 0 /\ message_id = 0

\* ----------------------------------------------------------------------
\* C27: execute_command of either server starts no subprocess for a command
\* its safety check rejects, nor when dry_run is true; it then returns the
\* blocked result or the dry-run result, and a rejected command gets the
\* blocked result also when dry_run is true.
Rejects(c) ==
    IF c.tool = "terminal.execute_command" THEN ~IsSafeCommand(c.command)
    ELSE ~IsCommandSafe(c.command)
IsExecute(c) ==
    c.tool \in {"terminal.execute_command", "terminal_browser.execute_command"}
C27_UnsafeOrDryRunNeverRuns ==
    /\ [][\A t \in Tasks :
            (call'[t] # call[t] /\ IsExecute(call'[t])) =>
               /\ call'[t].pc = "done"
               /\ Rejects(call'[t]) =>
                     call'[t].out = "blocked" /\ shell' = shell
               /\ (~Rejects(call'[t]) /\ call'[t].dry_run) =>
                     call'[t].out = "dry_run" /\ shell' = shell
               /\ (~Rejects(call'[t]) /\ ~call'[t].dry_run) =>
                     /\ call'[t].out \in Endings
                     /\ shell' = Append(shell, [server |-> call'[t].tool,
                                                command |-> call'[t].command])]_vars
    /\ [](\A k \in 1..Len(shell) :
            ~Rejects([tool |-> shell[k].server, command |-> shell[k].command]))

\* "rm -rf /" was given with dry_run true and got the blocked result, and
\* nothing has been run.
C27_Witness ==
    \E t \in Tasks :
        /\ IsExecute(call[t]) /\ call[t].dry_run
        /\ call[t].command = <<"r", "m", " ", "-", "r", "f", " ", "/">>
        /\ call[t].out = "blocked" /\ shell = <<>>

\* ----------------------------------------------------------------------
\* C28: the receive loop files every frame it could parse in exactly one
\* place, by the presence of an id alone: a frame with an id goes into the
\* reply table under that id and the event log stays as it is; a frame
\* without an id is appended to the event log and the reply table stays as
\* it is.  So the log holds only frames without an id, and the table holds
\* under each id only a frame with that id.
JustRead == wire'[Len(wire')]
C28_RoutedByIdAlone ==
    /\ [][(Len(wire') = Len(wire) + 1 /\ JustRead.kind # "malformed") =>
            IF JustRead.kind = "reply"
               THEN /\ events' = events
                    /\ DOMAIN responses' = DOMAIN responses \cup {JustRead.id}
                    /\ responses'[JustRead.id] = JustRead
                    /\ \A i \in DOMAIN responses \ {JustRead.id} :
                          responses'[i] = responses[i]
               ELSE /\ events' = Append(events, JustRead)
                    /\ responses' = responses]_vars
    /\ [](/\ \A k \in 1..Len(events) : events[k].kind = "event"
          /\ \A i \in DOMAIN responses :
                responses[i].kind = "reply" /\ responses[i].id = i)

\* A reply with id 2 and an event have been read: the reply is in the table
\* under 2, the event in the log.
C28_Witness ==
    /\ Len(wire) = 2
    /\ wire[1].kind = "reply" /\ wire[1].id = 2 /\ wire[2].kind = "event"
    /\ DOMAIN responses = {2} /\ responses[2] = wire[1]
    /\ events = <<wire[2]>>

\* ----------------------------------------------------------------------
\* C29: send_command raises the timeout only if, at that moment, the receive
\* loop has read no reply to its request since the request was written.
C29_TimeoutOnlyWithoutReply ==
    \A t \in Tasks :
        task[t].pc = "timeout" =>
            \A p \in (SentAt(t) + 1)..task[t].endAt :
                ~(wire[p].kind = "reply" /\ wire[p].id = task[t].msg_id)

\* ----------------------------------------------------------------------
\* C30: the step in which browser_screenshot succeeds makes the batch of that
\* capture the registry, the empty batch when with_overlays is false.  While
\* the registry is empty every numeric reference fails as not in the
\* registry, and an empty registry becomes non-empty only by a screenshot
\* with overlays that succeeds.
Succeeds(t) ==
    /\ call[t].tool = "screenshot" /\ call[t].pc # "done"
    /\ call'[t].pc = "done" /\ call'[t].out = "ok"
C30_ScreenshotReplacesRegistry ==
    /\ [][\A t \in Tasks :
            Succeeds(t) =>
               /\ last_elements' = call'[t].elements
               /\ ~call[t].with_overlays => last_elements' = <<>>]_vars
    /\ [][\A t \in Tasks, n \in 1..9 :
            (/\ last_elements = <<>>
             /\ call[t].pc = "body" /\ call'[t].pc # "body"
             /\ ClickOrType(call[t])
             /\ call[t].selector = NumberedRef(n))
            => /\ call'[t].pc = "done" /\ call'[t].out = "not_in_registry"
               /\ call'[t].log = <<>>]_vars
    /\ [][(last_elements = <<>> /\ last_elements' # <<>>) =>
            \E t \in Tasks : Succeeds(t) /\ call[t].with_overlays]_vars

\* ----------------------------------------------------------------------
\* C31: the step in which browser_screenshot ends in a failure, whatever
\* raised, leaves the registry as it is.
C31_FailedScreenshotKeepsRegistry ==
    [][\A t \in Tasks :
          (/\ call[t].tool = "screenshot"
           /\ call[t].pc \notin {"idle", "done"}
           /\ call'[t].pc = "done" /\ call'[t].out # "ok")
          => last_elements' = last_elements]_vars

\* ----------------------------------------------------------------------
\* C32: after a screenshot with overlays has succeeded with N elements, for
\* every k in 1..N the k-th element of its result carries number k, the k-th
\* marker carries label k and is drawn at the k-th element, the registry it
\* stored is that batch, and while the registry is still that batch a click
\* or typeText given "element:k" goes on with the selector of that entry.
Captured(t) ==
    /\ call[t].tool = "screenshot" /\ call[t].with_overlays
    /\ call[t].pc = "done" /\ call[t].out = "ok"
C32_NumberingConsistent ==
    /\ [](\A t \in Tasks :
            Captured(t) =>
               /\ Len(call[t].result) = Len(call[t].elements)
               /\ Len(call[t].markers) = Len(call[t].elements)
               /\ \A k \in 1..Len(call[t].elements) :
                     /\ call[t].result[k].number = k
                     /\ call[t].result[k].selector
                           = call[t].elements[k].selector
                     /\ call[t].markers[k].label = k
                     /\ call[t].markers[k].el = call[t].elements[k])
    /\ [][\A t \in Tasks :
            (Succeeds(t) /\ call[t].with_overlays)
            => last_elements' = call'[t].elements]_vars
    /\ [][\A t, u \in Tasks :
            \A k \in 1..Len(call[t].elements) :
               (/\ Captured(t) /\ last_elements = call[t].elements
                /\ call[u].pc = "body" /\ call'[u].pc # "body"
                /\ ClickOrType(call[u])
                /\ call[u].selector = NumberedRef(k))
               => /\ call'[u].pc = "send"
                  /\ call'[u].sel = call[t].result[k].selector
                  /\ call'[u].sel = call[t].markers[k].el.selector
                  /\ \E j \in 1..Len(call[t].result) :
                        call[t].result[j].number = k
                  /\ \A j \in 1..Len(call[t].result) :
                        call[t].result[j].number = k => j = k]_vars

\* A screenshot with overlays succeeded with two elements and a click given
\* "element:2" has just resolved to the selector reported with number 2.
C32_Witness ==
    \E t, u \in Tasks :
        /\ Captured(t) /\ Len(call[t].elements) = 2
        /\ last_elements = call[t].elements
        /\ call[u].tool = "click" /\ call[u].pc = "send"
        /\ call[u].selector = NumberedRef(2)
        /\ call[u].cmd = "DOM.getDocument"
        /\ call[u].sel = call[t].result[2].selector
        /\ call[t].markers[2].label = 2

\* ----------------------------------------------------------------------
\* C33: navigate writes at most two requests, Page.navigate and then
\* Page.loadEventFired, the second only after its wait loop has returned the
\* reply to the first; its wait loops test the reply table at most 2 * POLLS
\* times in all; it ends by returning or by a timeout unless a send found no
\* open socket; and it always ends, whatever the target sends or omits.
Navigating(t) == task[t].op = "navigate"
RequestOf(id) == {k \in 1..Len(requests) : requests[k].id = id}
C33_NavigateTerminates ==
    /\ [](\A t \in Tasks :
            Navigating(t) =>
               /\ Len(task[t].ids) <= 2
               /\ task[t].tests <= 2 * POLLS
               /\ \A k \in 1..Len(task[t].ids) :
                     \A r \in RequestOf(task[t].ids[k]) :
                        requests[r].method = <<"Page.navigate",
                                               "Page.loadEventFired">>[k]
               /\ Len(task[t].ids) = 2 =>
                     /\ Len(task[t].got) >= 1
                     /\ task[t].got[1].id = task[t].ids[1]
                     /\ \E p \in 1..task[t].ats[2] :
                           wire[p] = task[t].got[1]
               /\ task[t].pc = "raised" =>
                     \A r \in RequestOf(task[t].msg_id) :
                        ~requests[r].written)
    /\ (Navigating("A") /\ Waiting("A")) ~> Ended("A")

\* The reply to Page.navigate was found at the last test of the first wait
\* loop, no reply to the load-wait command came, and navigate has failed
\* with a timeout after 2 * POLLS tests.
C33_Witness ==
    /\ Navigating("A") /\ task["A"].pc = "timeout"
    /\ Len(task["A"].ids) = 2 /\ Len(task["A"].got) = 1
    /\ task["A"].tests = 2 * POLLS
    /\ \A p \in 1..Len(wire) : wire[p].body # "Page.loadEventFired"

\* ----------------------------------------------------------------------
\* C34: a screenshot writes the enumeration script only with overlays, right
\* after Page.captureScreenshot and when every request it wrote before has
\* been answered; with overlays it returns from the capture, the overlay
\* drawn, only in the step that resumes it from the reply to the enumeration
\* script, and the markers and the elements it returns are those of that
\* reply.
Returns(t) ==
    /\ call[t].tool = "screenshot" /\ call[t].pc # "done"
    /\ call'[t].pc = "done" /\ call'[t].out \in {"ok", "save_failed"}
C34_EnumerationAfterCapture ==
    /\ [](\A t \in Tasks :
            call[t].tool = "screenshot" =>
               \A i \in 1..Len(call[t].log) :
                  call[t].log[i].method = "Runtime.evaluate" =>
                     /\ call[t].with_overlays
                     /\ i > 1
                     /\ call[t].log[i - 1].method = "Page.captureScreenshot"
                     /\ call[t].replies >= i - 1)
    /\ [][\A t \in Tasks :
            (Returns(t) /\ call[t].with_overlays) =>
               /\ call[t].pc = "resumed"
               /\ call[t].cmd = "Runtime.evaluate"
               /\ call[t].replies = Len(call[t].log)
               /\ call'[t].elements = ValueOr(call[t].reply, <<>>)
               /\ Len(call'[t].markers) = Len(call'[t].elements)
               /\ \A k \in 1..Len(call'[t].elements) :
                     call'[t].markers[k].el = call'[t].elements[k]]_vars
    /\ [][\A t \in Tasks :
            (call'[t].markers # call[t].markers /\ call'[t].markers # <<>>)
            => Returns(t) /\ call[t].with_overlays]_vars

\* A screenshot with overlays has returned two elements: it wrote the capture
\* and then the enumeration script, and both were answered.
C34_Witness ==
    \E t \in Tasks :
        /\ call[t].tool = "screenshot" /\ call[t].with_overlays
        /\ call[t].pc = "done" /\ call[t].out = "ok"
        /\ Len(call[t].log) = 2
        /\ call[t].log[1].method = "Page.captureScreenshot"
        /\ call[t].log[2].method = "Runtime.evaluate"
        /\ call[t].replies = 2
        /\ Len(call[t].markers) = 2

\* ======================================================================
\* SessionManager: the sessions of the dynamic-thinking server.  Its methods
\* do not await: each runs from its call to its return in one step.  A
\* dictionary entry that may be missing is a sequence of no or one value.
\* ======================================================================
\* How many calls the SessionManager receives.
MaxOps == 4

\* The tools whose results call_tool records, and their results.
Phases == {"perceive", "reason"}
Datas == {"r1", "r2"}

\* datetime.utcnow() at a call: calls are numbered in the order they happen.
Now == Len(trail) + 1

\* task_id in self.sessions
Has(s, id) == s[id] # <<>>

\* The dictionary create_session builds.
NewSession(id, now) ==
    [task_id |-> id, created_at |-> now, phases |-> [p \in Phases |-> <<>>],
     status |-> "active", completed_at |-> <<>>]

\* self.sessions after create_session(task_id)
Created(s, id, now) == [s EXCEPT ![id] = <<NewSession(id, now)>>]

\* self.sessions after update_session(task_id, phase, data)
UpdatedReactivating(s, id, phase, data, now) ==
    LET held == IF Has(s, id) THEN s ELSE Created(s, id, now)
    IN [held EXCEPT ![id] =
          <<[held[id][1] EXCEPT
                !.status = "active",
                !.phases[phase] = <<[data |-> data, timestamp |-> now]>>]>>]
Updated(s, id, phase, data, now) ==
    LET held == IF Has(s, id) THEN s ELSE Created(s, id, now)
    IN [held EXCEPT ![id] =
          <<[held[id][1] EXCEPT
                !.phases[phase] = <<[data |-> data, timestamp |-> now]>>]>>]

\* self.sessions after complete_session(task_id)
Completed(s, id, now) ==
    IF Has(s, id)
       THEN [s EXCEPT ![id] =
               <<[s[id][1] EXCEPT !.status = "complete",
                                  !.completed_at = <<now>>]>>]
       ELSE s

\* What get_active_sessions returns: the entries whose status is "active".
ActiveSessions(s) ==
    [id \in TaskIds |->
        IF Has(s, id) /\ s[id][1].status = "active" THEN s[id] ELSE <<>>]

\* A call as the trail keeps it.
Called(op, id, phase, data, result) ==
    [op |-> op, task_id |-> id, phase |-> phase, data |-> data,
     result |-> result]

CreateSession(id) ==
    /\ Len(trail) < MaxOps
    /\ sessions' = Created(sessions, id, Now)
    /\ trail' = Append(trail, Called("create_session", id, "", "",
                                      <<NewSession(id, Now)>>))
    /\ UNCHANGED <<ws, listening, message_id, responses, events, task, wire,
                   requests, serverVars, shell, evolveVars>>

UpdateSession(id, phase, data) ==
    /\ Len(trail) < MaxOps
    /\ sessions' = Updated(sessions, id, phase, data, Now)
    /\ trail' = Append(trail, Called("update_session", id, phase, data, <<>>))
    /\ UNCHANGED <<ws, listening, message_id, responses, events, task, wire,
                   requests, serverVars, shell, evolveVars>>

CompleteSession(id) ==
    /\ Len(trail) < MaxOps
    /\ sessions' = Completed(sessions, id, Now)
    /\ trail' = Append(trail, Called("complete_session", id, "", "", <<>>))
    /\ UNCHANGED <<ws, listening, message_id, responses, events, task, wire,
                   requests, serverVars, shell, evolveVars>>

GetSession(id) ==
    /\ Len(trail) < MaxOps
    /\ trail' = Append(trail, Called("get_session", id, "", "", sessions[id]))
    /\ UNCHANGED <<ws, listening, message_id, responses, events, task, wire,
                   requests, serverVars, shell, sessions, evolveVars>>

GetActiveSessions ==
    /\ Len(trail) < MaxOps
    /\ trail' = Append(trail, Called("get_active_sessions", "", "", "",
                                      ActiveSessions(sessions)))
    /\ UNCHANGED <<ws, listening, message_id, responses, events, task, wire,
                   requests, serverVars, shell, sessions, evolveVars>>

CreateSessionStep == \E id \in TaskIds : CreateSession(id)
UpdateSessionStep ==
    \E id \in TaskIds, phase \in Phases, data \in Datas :
        UpdateSession(id, phase, data)
CompleteSessionStep == \E id \in TaskIds : CompleteSession(id)
GetSessionStep == \E id \in TaskIds : GetSession(id)

NextSessions ==
    \/ CreateSessionStep
    \/ UpdateSessionStep
    \/ CompleteSessionStep
    \/ GetSessionStep
    \/ GetActiveSessions

SpecSessions == Init /\ [][NextSessions]_vars

\* ----------------------------------------------------------------------
\* C35: whatever calls were made, get_active_sessions returns the sessions
\* of exactly the task ids that the calls before it left active: those that
\* were created, by create_session or by the first update_session, and not
\* completed since their last create_session.  update_session on an unknown
\* task leaves an active session created at that call that holds the phase
\* and nothing else; update_session on a completed session records the
\* phase and changes nothing else; complete_session on an unknown task
\* changes nothing.
Touches(h, id, ops) ==
    {k \in 1..Len(h) : h[k].task_id = id /\ h[k].op \in ops}
LeftActive(h, id) ==
    LET born == Touches(h, id, {"create_session", "update_session"})
        made == Touches(h, id, {"create_session"})
        ended == Touches(h, id, {"complete_session"})
    IN /\ born # {}
       /\ \A e \in ended :
             \/ \A b \in born : e < b
             \/ \E c \in made : e < c
LastCall == trail'[Len(trail')]
C35_ActiveSessionsAreTheActive ==
    /\ [](\A k \in 1..Len(trail) :
            trail[k].op = "get_active_sessions" =>
               \A id \in TaskIds :
                  /\ trail[k].result[id] # <<>>
                        <=> LeftActive(SubSeq(trail, 1, k - 1), id)
                  /\ trail[k].result[id] # <<>> =>
                        /\ trail[k].result[id][1].status = "active"
                        /\ trail[k].result[id][1].task_id = id)
    /\ [](\A id \in TaskIds :
            (Has(sessions, id) /\ sessions[id][1].status = "active")
               <=> LeftActive(trail, id))
    /\ [][\A id \in TaskIds :
            (/\ trail' # trail /\ LastCall.op = "update_session"
             /\ LastCall.task_id = id)
            => IF ~Has(sessions, id)
                  THEN sessions' = [sessions EXCEPT ![id] =
                         <<[NewSession(id, Now) EXCEPT
                              !.phases[LastCall.phase] =
                                 <<[data |-> LastCall.data,
                                    timestamp |-> Now]>>]>>]
                  ELSE sessions' = [sessions EXCEPT ![id] =
                         <<[sessions[id][1] EXCEPT
                              !.phases[LastCall.phase] =
                                 <<[data |-> LastCall.data,
                                    timestamp |-> Now]>>]>>]]_vars
    /\ [][\A id \in TaskIds :
            (/\ trail' # trail /\ LastCall.op = "complete_session"
             /\ LastCall.task_id = id /\ ~Has(sessions, id))
            => sessions' = sessions]_vars

\* A session was completed, then updated, and get_active_sessions returned
\* the other task's session only, which an update_session had created.
C35_Witness ==
    /\ Len(trail) = 4
    /\ trail[1].op = "update_session" /\ trail[1].task_id = "t2"
    /\ trail[2].op = "complete_session" /\ trail[2].task_id = "t2"
    /\ trail[3].op = "update_session" /\ trail[3].task_id = "t1"
    /\ trail[4].op = "get_active_sessions"
    /\ trail[4].result["t1"] # <<>> /\ trail[4].result["t2"] = <<>>
    /\ sessions["t2"][1].status = "complete"

\* ======================================================================
\* EvolutionLoop: the agent rewrites agent.py and keeps or reverts the
\* change with git.  The loop is one thread without awaits: an iteration up
\* to _meta_improve is one step and _meta_improve is one step.  A text is
\* the sequence of its characters.
\* ======================================================================
\* n_iterations of run.
MaxIterations == 3
\* The scores the benchmark may give and the archive may hold as its best.
Scores == 0..2

\* The backquote character, written as a word.
Backquote == "backquote"
Fence == <<Backquote, Backquote, Backquote>>
PythonFence == Fence \o <<"p", "y", "t", "h", "o", "n">>
Blanks == {" ", "\n", "\t"}
NameChars == {"h", "n", "o", "p", "t", "x", "y"}

\* s.find(p, start): the index, counted from 0, of the first place at or
\* after start where p stands in s, and -1 when there is none.
Find(s, p, start) ==
    LET hits == {i \in start..Len(s) : At(s, i + 1, p)}
    IN IF hits = {} THEN -1 ELSE Least(hits)
\* s[start:end] for start >= 0; a negative end counts from the end of s.
Slice(s, start, end) ==
    LET stop == IF end < 0 THEN Len(s) + end ELSE end
        last == IF stop > Len(s) THEN Len(s) ELSE stop
    IN IF start >= last THEN <<>> ELSE SubSeq(s, start + 1, last)
\* s.strip()
Strip(s) ==
    LET kept == {i \in 1..Len(s) : s[i] \notin Blanks}
    IN IF kept = {} THEN <<>> ELSE SubSeq(s, Least(kept), Greatest(kept))

\* _extract_code
ExtractCode(response) ==
    IF Contains(response, PythonFence)
       THEN LET start == Find(response, PythonFence, 0) + 9
                end == Find(response, Fence, start)
            IN Strip(Slice(response, start, end))
    ELSE IF Contains(response, Fence)
       THEN LET start == Find(response, Fence, 0) + 3
                end == Find(response, Fence, start)
            IN Strip(Slice(response, start, end))
    ELSE Strip(response)

\* _validate_code: compile(code, "<string>", "exec") raises no SyntaxError.
\* Over the characters of the model's texts a source compiles when it is
\* made of names on lines of their own; the empty source compiles.
ValidateCode(code) ==
    \A k \in 1..Len(code) : code[k] \in NameChars \cup {"\n"}

\* The texts the model may answer with.
Responses ==
    {<<"o">>,
     <<"(">>,
     <<" ", "\n">>,
     PythonFence \o <<"\n", "n", "\n">> \o Fence,
     Fence \o <<"\n", "h", "\n">> \o Fence,
     PythonFence \o <<"\n", "t", "o">>,
     PythonFence \o <<"\n">> \o Fence}
\* The request to the model fails or times out, or is answered.
Answers ==
    {[ok |-> FALSE, content |-> <<>>]}
    \cup {[ok |-> TRUE, content |-> r] : r \in Responses}
\* _call_ollama: the content of the answer, "" on any failure.
CallOllama(answer) == IF answer.ok THEN answer.content ELSE <<>>

\* git add agent.py; git commit -m message: a commit is made unless the
\* content is that of HEAD.
Commit(content, message) == [content |-> content, message |-> message]
Committed(g, content, message) ==
    IF g # <<>> /\ g[Len(g)].content = content
       THEN g ELSE Append(g, Commit(content, message))
\* git reset --hard HEAD~1: the branch and agent.py afterwards; the command
\* fails and changes nothing when HEAD has no parent.
ResetToParent(g, content) ==
    IF Len(g) >= 2
       THEN [git |-> SubSeq(g, 1, Len(g) - 1), agent_file |-> g[Len(g) - 1].content]
       ELSE [git |-> g, agent_file |-> content]

\* _evaluate_agent returns a score or raises.
Evaluations ==
    {[raised |-> TRUE, score |-> 0]}
    \cup {[raised |-> FALSE, score |-> v] : v \in Scores}

\* run, one iteration up to the call of _meta_improve: the agent is read and
\* evaluated; _evaluate_agent returns a score or raises.
Iterate(evaluated) ==
    /\ loop.pc = "evaluate"
    /\ loop' = IF evaluated.raised THEN [loop EXCEPT !.pc = "crashed"]
               ELSE IF loop.i < MaxIterations - 1
                  THEN [loop EXCEPT !.pc = "improve"]
               ELSE [loop EXCEPT !.pc = "finished", !.i = @ + 1]
    /\ UNCHANGED <<ws, listening, message_id, responses, events, task, wire,
                   requests, serverVars, shell, sessionVars, agent_file, git>>

\* _meta_improve, for the answer of the model, the outcome of the quick test
\* and the best score of the archive.
MetaImprove(answer, evaluated, best) ==
    /\ loop.pc = "improve"
    /\ LET response == CallOllama(answer)
           improved_code == ExtractCode(response)
           checkpoint == Committed(git, agent_file, "Pre-improvement checkpoint")
           reverted == ResetToParent(checkpoint, improved_code)
           ended(how) == [loop EXCEPT !.pc = "evaluate", !.i = @ + 1,
                                      !.out = how, !.response = response]
       IN IF ~ValidateCode(improved_code)
             THEN /\ loop' = ended("skipped")
                  /\ UNCHANGED <<agent_file, git>>
          ELSE IF evaluated.raised
             THEN /\ loop' = [ended("crashed") EXCEPT !.pc = "crashed",
                                                      !.i = loop.i]
                  /\ agent_file' = improved_code
                  /\ git' = checkpoint
          ELSE IF evaluated.score >= best
             THEN /\ loop' = ended("accepted")
                  /\ agent_file' = improved_code
                  /\ git' = Committed(checkpoint, improved_code,
                                      "Improvement accepted")
          ELSE /\ loop' = ended("rejected")
               /\ agent_file' = reverted.agent_file
               /\ git' = reverted.git
    /\ UNCHANGED <<ws, listening, message_id, responses, events, task, wire,
                   requests, serverVars, shell, sessionVars>>

\* The agent and the repository the loop is started on: agent.py as
\* committed or edited since, on a branch of no, one or two commits.
Programs == {<<"x">>, <<"y">>}
Repositories ==
    {<<>>}
    \cup {<<Commit(a, "first")>> : a \in Programs}
    \cup {<<Commit(ab[1], "first"), Commit(ab[2], "second")>> :
             ab \in {p \in Programs \X Programs : p[1] # p[2]}}

InitEvolve ==
    /\ ws = "None" /\ listening = FALSE /\ message_id = 0
    /\ responses = <<>> /\ events = <<>>
    /\ task = [t \in Tasks |-> IdleTask]
    /\ wire = <<>> /\ requests = <<>>
    /\ cdp = "None" /\ opens = 0 /\ calls = 0 /\ last_elements = <<>>
    /\ call = [t \in Tasks |-> IdleCall]
    /\ shell = <<>>
    /\ SessionInit
    /\ agent_file \in Programs
    /\ git \in Repositories
    /\ loop = [NotRunning EXCEPT !.pc = "evaluate"]

IterateStep == \E e \in Evaluations : Iterate(e)
MetaImproveStep ==
    \E a \in Answers, e \in Evaluations, best \in Scores :
        MetaImprove(a, e, best)

NextEvolve ==
    \/ IterateStep
    \/ MetaImproveStep

SpecEvolve == InitEvolve /\ [][NextEvolve]_vars

\* ----------------------------------------------------------------------
\* C36: the step of _meta_improve that rejects the improvement leaves
\* agent.py with the content it had before the step, and every commit the
\* branch had before the step is still on it, in place.
Rejected == loop.pc = "improve" /\ loop'.out = "rejected" /\ loop'.i # loop.i
C36_RejectionRestores ==
    [][Rejected =>
         /\ agent_file' = agent_file
         /\ Len(git') >= Len(git)
         /\ \A k \in 1..Len(git) : git'[k] = git[k]]_vars

\* ----------------------------------------------------------------------
\* C37: a step of _meta_improve changes agent.py only to a non-empty text
\* that compiles, and when _call_ollama returned the empty text or the
\* extracted code does not compile it leaves agent.py and the branch as
\* they are.
Improved == loop.pc = "improve" /\ loop' # loop
C37_OnlyValidNonEmptyCodeWritten ==
    [][Improved =>
         /\ agent_file' # agent_file =>
               agent_file' # <<>> /\ ValidateCode(agent_file')
         /\ (loop'.response = <<>> \/ ~ValidateCode(ExtractCode(loop'.response)))
               => agent_file' = agent_file /\ git' = git]_vars

====
